---- MODULE Spec2Model ----
(***************************************************************************)
(* The indexing supervisor of servers/repo-map-server.py: the supervisor   *)
(* handle (_indexing_process), the reap step, the watchdog, do_index and   *)
(* its callers, the guarded reads of call_tool, and the store that the     *)
(* extraction child and the watchdog both write.                           *)
(*                                                                         *)
(* Time is kept relative: a timestamp is modelled by its distance to the   *)
(* clock (its age), which Tick advances by half the deadline and caps once *)
(* it is past every threshold the code compares it with.  Each periodic    *)
(* task runs at least once between two steps of the clock.  The poll loop  *)
(* of a guarded read counts its own seconds.                               *)
(***************************************************************************)
EXTENDS Integers, FiniteSets, Sequences, TLC

\* ------------------------------------------------------------------------
\* Program constants
\* ------------------------------------------------------------------------
\* check_indexing_watchdog: "if elapsed > 600"
Deadline == 600
\* periodic_watchdog_check: asyncio.sleep(60); STALENESS_CHECK_INTERVAL = 60
SweepPeriod == 60
\* call_tool: wait_for_indexing(timeout_seconds=15)
WaitBound == 15
\* wait_for_indexing: asyncio.sleep(1)
PollInterval == 1
\* is_stale: current_files[:100]
SampleSize == 100
\* indexer.CACHE_VERSION, the cache schema version the indexer writes
CACHE_VERSION == 2
\* signal numbers classified by check_subprocess_exit_status
SIGXCPU == 24
SIGSEGV == 11
SIGKILL == 9
\* a signal the reap step has no message of its own for
OtherSignal == 15

\* ------------------------------------------------------------------------
\* Bounds of the model
\* ------------------------------------------------------------------------
\* process slots: extraction children that can exist at once
MaxChildren == 2

Children == 1..MaxChildren
\* the source files of the tree the service runs in, named by their place in
\* the listing of find_files: one file, where the supervisor is what is checked
Files == {1}
Readers == {"r1"}
\* the clock advances in steps of half the deadline (5 sweep periods)
TickStep == Deadline \div 2
\* an age past every threshold is not told apart from a larger one
AgeCap == Deadline + TickStep
\* exit statuses of a child that did not end cleanly
FailureCodes == {1, -SIGXCPU, -SIGSEGV, -SIGKILL, -OtherSignal}

VARIABLES
    booted,           \* main() has run its startup block
    handle,           \* _indexing_process: 0 for None, else the child
    last_index_time,  \* _last_index_time: [set, age]
    index_error,      \* _index_error: "none" for None
    do_index_ret,     \* what do_index returned, if this step called it
    diag,             \* what the reap step logged, if this step reaped a child
    wd,               \* position of check_indexing_watchdog: "idle", "marked"
    watchdog_due,     \* periodic_watchdog_check has slept its period out
    staleness_due,    \* periodic_staleness_check has slept its period out
    children,         \* the extraction processes, by slot
    db_exists,        \* repo-map.db exists
    status,           \* metadata["status"]
    index_start_time, \* metadata["index_start_time"]: [kind, age]
    error_message,    \* metadata["error_message"]
    cache,            \* repo-map-cache.json: [exists, ok (it parses), version, files]
    tree,             \* the discoverable source files
    modified,         \* the files with an mtime newer than the db's
    symbols,          \* the symbols table of repo-map.db
    progress,         \* the progress file of the running extraction
    query,            \* the last call of a query function: its arguments and its rows
    rd                \* the guarded reads in flight, by caller

svc_vars == <<booted, handle, last_index_time, index_error, wd, watchdog_due, staleness_due>>
out_vars == <<do_index_ret, diag>>
store_vars == <<db_exists, status, index_start_time, error_message>>
fs_vars == <<cache, tree, modified>>
idx_vars == <<symbols, progress, query>>
vars == <<svc_vars, out_vars, children, store_vars, fs_vars, idx_vars, rd>>

\* ------------------------------------------------------------------------
\* Helpers
\* ------------------------------------------------------------------------
Min(a, b) == IF a < b THEN a ELSE b

NoProc == 0
FreeChild == [st |-> "free", phase |-> "none", rc |-> 0, mine |-> FALSE]
NoTime == [kind |-> "unset", age |-> 0]
Never == [set |-> FALSE, age |-> 0]
\* repo-map-cache.json does not exist
NoCache == [exists |-> FALSE, ok |-> FALSE, version |-> 0, files |-> {}]

\* the progress file: absent until an extraction writes it
NoProgress == [exists |-> FALSE, files_parsed |-> 0, files_to_parse |-> 0]
Progress(n, total) == [exists |-> TRUE, files_parsed |-> n, files_to_parse |-> total]

\* get_indexing_progress returned None: the payload carries no progress
NoPayload == [exists |-> FALSE, files_parsed |-> 0, files_to_parse |-> 0, percentage |-> 0]

\* get_indexing_progress: the progress file as the payload reports it
get_indexing_progress ==
    IF ~progress.exists THEN NoPayload
    ELSE [exists |-> TRUE,
          files_parsed |-> progress.files_parsed,
          files_to_parse |-> progress.files_to_parse,
          percentage |-> IF progress.files_to_parse > 0
                         THEN (progress.files_parsed * 100) \div progress.files_to_parse
                         ELSE 0]

\* the rows of the symbols table one run writes for the files tr: a row
\* carries its file and the run it was written by, named by what the run indexed
Rows(tr) == {[file |-> f, run |-> tr] : f \in tr}

\* no query function has been called
NoQuery == [tool |-> "none"]

\* proc.poll() is None
Running(c) == children[c].st = "running"

\* _indexing_process is not None and _indexing_process.poll() is None
is_indexing == handle # NoProc /\ Running(handle)

\* a sample that takes every file of the listing
Sampled_all(tr) == tr

\* the files is_stale samples: current_files[:100], the first SampleSize of
\* the listing
Sampled(tr) == {f \in tr : Cardinality({g \in tr : g < f}) < SampleSize}

\* an is_stale that looks at the file count before the cache version
is_stale_of_count_first(dbx, cch, tr, mod) ==
    IF ~dbx THEN <<TRUE, "database does not exist">>
    ELSE IF ~cch.exists THEN <<TRUE, "cache file missing">>
    ELSE IF ~cch.ok THEN <<TRUE, "cache file corrupt">>
    ELSE IF Cardinality(tr) # Cardinality(cch.files) THEN <<TRUE, "file count changed">>
    ELSE IF cch.version # CACHE_VERSION THEN <<TRUE, "cache version mismatch">>
    ELSE IF \E f \in Sampled(tr) : f \in mod THEN <<TRUE, "files modified since last index">>
    ELSE <<FALSE, "up to date">>

\* is_stale(): the verdict and its reason, from the store, the cache and
\* the file listing
is_stale_of(dbx, cch, tr, mod) ==
    IF ~dbx THEN <<TRUE, "database does not exist">>
    ELSE IF ~cch.exists THEN <<TRUE, "cache file missing">>
    ELSE IF ~cch.ok THEN <<TRUE, "cache file corrupt">>
    ELSE IF cch.version # CACHE_VERSION THEN <<TRUE, "cache version mismatch">>
    ELSE IF Cardinality(tr) # Cardinality(cch.files) THEN <<TRUE, "file count changed">>
    ELSE IF \E f \in Sampled(tr) : f \in mod THEN <<TRUE, "files modified since last index">>
    ELSE <<FALSE, "up to date">>

is_stale == is_stale_of(db_exists, cache, tree, modified)

\* ------------------------------------------------------------------------
\* The extraction supervisor
\* ------------------------------------------------------------------------
\* a process object nobody refers to any more is gone once it has exited
Release(ch, c) ==
    IF c # NoProc /\ ch[c].st = "exited" THEN [ch EXCEPT ![c] = FreeChild] ELSE ch

FreeSlots(ch) == {c \in Children : ch[c].st = "free"}
LowestFree(ch) == CHOOSE c \in FreeSlots(ch) : \A d \in FreeSlots(ch) : c <= d

\* subprocess.Popen either returns a process or raises
SpawnOutcomes == {ok \in BOOLEAN : ok => FreeSlots(Release(children, handle)) # {}}

\* a refusal that stamps the last-index time all the same
do_index_refuse_stamps ==
    /\ do_index_ret' = "indexing already in progress"
    /\ last_index_time' = [set |-> TRUE, age |-> 0]
    /\ UNCHANGED <<handle, children, index_error>>

\* do_index() asked to start while a child is live: refused
do_index_refuse ==
    /\ do_index_ret' = "indexing already in progress"
    /\ UNCHANGED <<handle, children, last_index_time, index_error>>

\* a do_index that keeps a failed spawn to itself
do_index_spawn_silent(ok) ==
    IF ok
    THEN LET ch1 == Release(children, handle)
             c == LowestFree(ch1)
         IN  /\ children' = [ch1 EXCEPT ![c] =
                    [st |-> "running", phase |-> "spawned", rc |-> 0, mine |-> TRUE]]
             /\ handle' = c
             /\ last_index_time' = [set |-> TRUE, age |-> 0]
             /\ index_error' = "none"
             /\ do_index_ret' = "indexing started in subprocess"
    ELSE /\ do_index_ret' = "failed to start indexing"
         /\ UNCHANGED <<handle, children, last_index_time, index_error>>

\* do_index() past the live-child check; ok: Popen succeeds
do_index_spawn(ok) ==
    IF ok
    THEN LET ch1 == Release(children, handle)
             c == LowestFree(ch1)
         IN  /\ children' = [ch1 EXCEPT ![c] =
                    [st |-> "running", phase |-> "spawned", rc |-> 0, mine |-> TRUE]]
             /\ handle' = c
             /\ last_index_time' = [set |-> TRUE, age |-> 0]
             /\ index_error' = "none"
             /\ do_index_ret' = "indexing started in subprocess"
    ELSE /\ index_error' = "spawn failed"
         /\ do_index_ret' = "failed to start indexing"
         /\ UNCHANGED <<handle, children, last_index_time>>

\* do_index() without its live-child check
do_index_unchecked(ok) == do_index_spawn(ok)

\* do_index()
do_index(ok) ==
    IF is_indexing THEN do_index_refuse ELSE do_index_spawn(ok)

\* index_in_background()
index_in_background(ok) == do_index(ok)

no_index ==
    /\ do_index_ret' = "none"
    /\ UNCHANGED <<handle, children, last_index_time, index_error>>

\* a step that neither calls do_index nor reaps
quiet == do_index_ret' = "none" /\ diag' = "none"

\* ------------------------------------------------------------------------
\* The reap step and the watchdog
\* ------------------------------------------------------------------------
\* check_subprocess_exit_status: the diagnostic logged for a return code
Classify(rc) ==
    IF rc = 0 THEN "completed successfully"
    ELSE IF rc < 0
         THEN IF -rc = SIGXCPU THEN "exceeded CPU time limit"
              ELSE IF -rc = SIGSEGV THEN "crashed"
              ELSE IF -rc = SIGKILL THEN "was killed"
              ELSE "exited with signal"
         ELSE "exited with error code"

\* a reap step that lets go of the handle after a clean exit only
Reaped_clean_only ==
    IF handle = NoProc \/ Running(handle)
    THEN [h |-> handle, d |-> "none", ch |-> children]
    ELSE IF children[handle].rc = 0
         THEN [h |-> NoProc, d |-> Classify(0), ch |-> Release(children, handle)]
         ELSE [h |-> handle, d |-> Classify(children[handle].rc), ch |-> children]

\* check_subprocess_exit_status(): the handle, the log and the processes after it
Reaped ==
    IF handle = NoProc \/ Running(handle)
    THEN [h |-> handle, d |-> "none", ch |-> children]
    ELSE [h |-> NoProc, d |-> Classify(children[handle].rc), ch |-> Release(children, handle)]

\* elapsed = (datetime.now() - start_time).total_seconds()
elapsed == index_start_time.age

\* a hang check that also takes a failed run past the deadline for a hang
HangDetected_failed_too ==
    /\ db_exists
    /\ status \in {"indexing", "failed"}
    /\ index_start_time.kind = "valid"
    /\ elapsed > Deadline

\* a hang check that fires at the deadline, not past it
HangDetected_at_deadline ==
    /\ db_exists
    /\ status = "indexing"
    /\ index_start_time.kind = "valid"
    /\ elapsed >= Deadline

\* a hang check that trusts the handle: no live child, no hang
HangDetected_live ==
    /\ db_exists
    /\ status = "indexing"
    /\ index_start_time.kind = "valid"
    /\ index_start_time.age > Deadline
    /\ is_indexing

\* check_indexing_watchdog: the store shows a run past the deadline
HangDetected ==
    /\ db_exists
    /\ status = "indexing"
    /\ index_start_time.kind = "valid"
    /\ elapsed > Deadline

\* check_indexing_watchdog: the commit that marks the store failed
MarkFailed ==
    /\ status' = "failed"
    /\ error_message' = "Watchdog killed hung indexer"
    /\ modified' = {}
    /\ UNCHANGED <<db_exists, index_start_time, cache, tree, idx_vars>>

\* check_indexing_watchdog, up to its commit
check_indexing_watchdog ==
    IF HangDetected
    THEN MarkFailed /\ wd' = "marked"
    ELSE UNCHANGED <<store_vars, fs_vars, idx_vars, wd>>

\* periodic_watchdog_check: one sweep, the reap step and then the hang check
WatchdogSweep ==
    /\ booted /\ wd = "idle"
    /\ LET r == Reaped
       IN  handle' = r.h /\ diag' = r.d /\ children' = r.ch
    /\ check_indexing_watchdog
    /\ watchdog_due' = FALSE
    /\ do_index_ret' = "none"
    /\ UNCHANGED <<booted, last_index_time, index_error, staleness_due, rd>>

\* check_indexing_watchdog after its commit: kill the child the handle refers
\* to if it still runs, wait for it and clear the handle
WatchdogKill ==
    /\ booted /\ wd = "marked"
    /\ IF is_indexing
       THEN /\ children' = [children EXCEPT ![handle] = FreeChild]
            /\ handle' = NoProc
       ELSE UNCHANGED <<children, handle>>
    /\ wd' = "idle"
    /\ quiet
    /\ UNCHANGED <<booted, last_index_time, index_error, watchdog_due, staleness_due,
                   store_vars, fs_vars, idx_vars, rd>>

\* ------------------------------------------------------------------------
\* The service: startup, the staleness sweep, the control operations
\* ------------------------------------------------------------------------
NoRead ==
    [pc |-> "idle", waited |-> 0, msg |-> "none", resp |-> "none", read |-> FALSE,
     rows |-> {}, progress |-> NoPayload]

\* a main() that goes to the staleness check without its watchdog pass
Startup_unreconciled(ok) ==
    /\ ~booted
    /\ booted' = TRUE
    /\ IF is_stale[1]
       THEN index_in_background(ok)
       ELSE no_index
    /\ watchdog_due' = FALSE /\ staleness_due' = FALSE
    /\ diag' = "none"
    /\ UNCHANGED <<wd, rd, store_vars, fs_vars, idx_vars>>

\* main(): one watchdog pass (the handle is None, there is nothing to reap or
\* kill), then the startup staleness check
Startup(ok) ==
    /\ ~booted
    /\ booted' = TRUE
    /\ IF HangDetected
       THEN MarkFailed
       ELSE UNCHANGED <<store_vars, fs_vars, idx_vars>>
    /\ IF is_stale_of(db_exists, cache, tree, modified')[1]
       THEN index_in_background(ok)
       ELSE no_index
    /\ watchdog_due' = FALSE /\ staleness_due' = FALSE
    /\ diag' = "none"
    /\ UNCHANGED <<wd, rd>>

\* a sweep that asks is_stale alone and leaves the live child to do_index
StalenessSweep_blind(ok) ==
    /\ booted /\ wd = "idle"
    /\ IF is_stale[1]
       THEN index_in_background(ok)
       ELSE no_index
    /\ staleness_due' = FALSE
    /\ diag' = "none"
    /\ UNCHANGED <<booted, wd, watchdog_due, store_vars, fs_vars, idx_vars, rd>>

\* periodic_staleness_check: one sweep
StalenessSweep(ok) ==
    /\ booted /\ wd = "idle"
    /\ IF ~is_indexing /\ is_stale[1]
       THEN index_in_background(ok)
       ELSE no_index
    /\ staleness_due' = FALSE
    /\ diag' = "none"
    /\ UNCHANGED <<booted, wd, watchdog_due, store_vars, fs_vars, idx_vars, rd>>

\* a reindex_repo_map that starts an extraction whenever none is running
reindex_repo_map_eager(force, ok) ==
    IF is_indexing THEN no_index ELSE index_in_background(ok)

\* reindex_repo_map(force)
reindex_repo_map(force, ok) ==
    IF is_indexing THEN no_index
    ELSE IF ~force /\ ~is_stale[1] THEN no_index
    ELSE index_in_background(ok)

Reindex(force, ok) ==
    /\ booted /\ wd = "idle"
    /\ reindex_repo_map(force, ok)
    /\ diag' = "none"
    /\ UNCHANGED <<booted, wd, watchdog_due, staleness_due, store_vars, fs_vars, idx_vars, rd>>

\* do_index() called by a caller that makes no check of its own
DirectDoIndex(ok) ==
    /\ booted /\ wd = "idle"
    /\ do_index(ok)
    /\ diag' = "none"
    /\ UNCHANGED <<booted, wd, watchdog_due, staleness_due, store_vars, fs_vars, idx_vars, rd>>

\* the service process ends and a new one starts: the in-memory state is that
\* of a fresh import, a running child outlives the service that spawned it
Restart ==
    /\ booted
    /\ booted' = FALSE
    /\ handle' = NoProc
    /\ last_index_time' = Never
    /\ index_error' = "none"
    /\ do_index_ret' = "none"
    /\ diag' = "none"
    /\ wd' = "idle"
    /\ watchdog_due' = FALSE /\ staleness_due' = FALSE
    /\ children' = [c \in Children |->
            IF children[c].st = "running"
            THEN [children[c] EXCEPT !.mine = FALSE]
            ELSE FreeChild]
    /\ rd' = [r \in DOMAIN rd |-> NoRead]
    /\ UNCHANGED <<store_vars, fs_vars, idx_vars>>

\* ------------------------------------------------------------------------
\* The extraction child
\* ------------------------------------------------------------------------
\* a child that ends: its exit status stays readable through the handle of
\* the service that spawned it
Exited(c, rc) ==
    IF children[c].mine
    THEN [children EXCEPT ![c].st = "exited", ![c].rc = rc]
    ELSE [children EXCEPT ![c] = FreeChild]

\* a child that records the status and not the start time
ChildBegin_nostart(c) ==
    /\ Running(c) /\ children[c].phase = "spawned"
    /\ children' = [children EXCEPT ![c].phase = "indexing"]
    /\ db_exists' = TRUE
    /\ status' = "indexing"
    /\ error_message' = "none"
    /\ modified' = {}
    /\ quiet
    /\ progress' = Progress(0, Cardinality(tree))
    /\ UNCHANGED <<svc_vars, index_start_time, cache, tree, symbols, query, rd>>

\* the child opens the store and records the run: status and start time
ChildBegin(c) ==
    /\ Running(c) /\ children[c].phase = "spawned"
    /\ children' = [children EXCEPT ![c].phase = "indexing"]
    /\ db_exists' = TRUE
    /\ status' = "indexing"
    /\ index_start_time' = [kind |-> "valid", age |-> 0]
    /\ error_message' = "none"
    /\ modified' = {}
    /\ progress' = Progress(0, Cardinality(tree))
    /\ quiet
    /\ UNCHANGED <<svc_vars, cache, tree, symbols, query, rd>>

\* the child has parsed one more file and rewrites the progress file
ChildParse(c) ==
    /\ Running(c) /\ children[c].phase = "indexing"
    /\ progress.exists /\ progress.files_parsed < progress.files_to_parse
    /\ progress' = [progress EXCEPT !.files_parsed = @ + 1]
    /\ quiet
    /\ UNCHANGED <<svc_vars, children, store_vars, fs_vars, symbols, query, rd>>

\* the child persists the cache, replaces the symbols and marks the run completed
ChildCommit(c) ==
    /\ Running(c) /\ children[c].phase = "indexing"
    /\ children' = [children EXCEPT ![c].phase = "finished"]
    /\ cache' = [exists |-> TRUE, ok |-> TRUE, version |-> CACHE_VERSION, files |-> tree]
    /\ status' = "completed"
    /\ error_message' = "none"
    /\ modified' = {}
    /\ quiet
    /\ symbols' = Rows(tree)
    /\ progress' = Progress(Cardinality(tree), Cardinality(tree))
    /\ UNCHANGED <<svc_vars, db_exists, index_start_time, tree, query, rd>>

\* the child meets an unrecoverable error: it marks the run failed and exits
ChildFail(c) ==
    /\ Running(c) /\ children[c].phase = "indexing"
    /\ children' = Exited(c, 1)
    /\ status' = "failed"
    /\ error_message' = "indexing error"
    /\ modified' = {}
    /\ quiet
    /\ UNCHANGED <<svc_vars, db_exists, index_start_time, cache, tree, idx_vars, rd>>

\* the child exits after its commit
ChildExit(c) ==
    /\ Running(c) /\ children[c].phase = "finished"
    /\ children' = Exited(c, 0)
    /\ quiet
    /\ UNCHANGED <<svc_vars, store_vars, fs_vars, idx_vars, rd>>

\* the child is ended from outside: a resource limit, a crash, a kill
ChildCrash(c, rc) ==
    /\ Running(c)
    /\ children' = Exited(c, rc)
    /\ quiet
    /\ UNCHANGED <<svc_vars, store_vars, fs_vars, idx_vars, rd>>

\* ------------------------------------------------------------------------
\* The environment: the clock and the source tree
\* ------------------------------------------------------------------------
Older(a) == Min(a + TickStep, AgeCap)

\* time passes.  Less than a sweep period lies between two passes of a
\* periodic task, a watchdog pass runs to its end at once, and a read whose
\* wait is over returns at once: the clock does not step past any of them
Tick ==
    /\ wd = "idle"
    /\ ~watchdog_due /\ ~staleness_due
    /\ \A r \in DOMAIN rd : rd[r].pc = "waiting" => rd[r].waited < WaitBound
    /\ watchdog_due' = booted /\ staleness_due' = booted
    /\ index_start_time' =
          IF index_start_time.kind = "valid"
          THEN [index_start_time EXCEPT !.age = Older(@)]
          ELSE index_start_time
    /\ last_index_time' =
          IF last_index_time.set
          THEN [last_index_time EXCEPT !.age = Older(@)]
          ELSE last_index_time
    /\ rd' = [r \in DOMAIN rd |->
            IF rd[r].pc = "waiting" THEN [rd[r] EXCEPT !.waited = WaitBound] ELSE rd[r]]
    /\ quiet
    /\ UNCHANGED <<booted, handle, index_error, wd, children,
                   db_exists, status, error_message, fs_vars, idx_vars>>

\* a source file is edited after the store was last written
EditFile(f) ==
    /\ db_exists /\ f \in tree /\ f \notin modified
    /\ modified' = modified \cup {f}
    /\ quiet
    /\ UNCHANGED <<svc_vars, children, store_vars, cache, tree, idx_vars, rd>>

\* ------------------------------------------------------------------------
\* The guarded reads of call_tool
\* ------------------------------------------------------------------------
\* repo_map_status()["index_status"]
index_status == IF db_exists THEN status ELSE "absent"

\* a tool that adds what it reads to what its caller was last given
RunTool_cached(r, ok, msg) ==
    IF db_exists
    THEN /\ rd' = [rd EXCEPT ![r] = [pc |-> "done", waited |-> 0, msg |-> msg,
                                     resp |-> "result", read |-> TRUE,
                                     rows |-> rd[r].rows \cup symbols,
                                     progress |-> NoPayload]]
         /\ no_index
    ELSE /\ rd' = [rd EXCEPT ![r] = [pc |-> "done", waited |-> 0, msg |-> msg,
                                     resp |-> "database not found", read |-> FALSE,
                                     rows |-> {}, progress |-> NoPayload]]
         /\ IF is_stale[1] /\ ~is_indexing
            THEN index_in_background(ok)
            ELSE no_index

\* call_tool past the wait: the tool runs.  With the store present it reads
\* the symbols table; with the store absent get_db raises FileNotFoundError
\* and call_tool starts an extraction unless one is live
RunTool(r, ok, msg) ==
    IF db_exists
    THEN /\ rd' = [rd EXCEPT ![r] = [pc |-> "done", waited |-> 0, msg |-> msg,
                                     resp |-> "result", read |-> TRUE,
                                     rows |-> symbols, progress |-> NoPayload]]
         /\ no_index
    ELSE /\ rd' = [rd EXCEPT ![r] = [pc |-> "done", waited |-> 0, msg |-> msg,
                                     resp |-> "database not found", read |-> FALSE,
                                     rows |-> {}, progress |-> NoPayload]]
         /\ IF is_stale[1] /\ ~is_indexing
            THEN index_in_background(ok)
            ELSE no_index

\* a payload that reports the files still to parse as the files parsed
InProgress_remaining(r, msg) ==
    /\ rd' = [rd EXCEPT ![r] = [pc |-> "done", waited |-> 0, msg |-> msg,
                                resp |-> "indexing_in_progress", read |-> FALSE,
                                rows |-> {},
                                progress |-> [get_indexing_progress EXCEPT
                                    !.files_parsed = progress.files_to_parse - @]]]
    /\ no_index

\* call_tool: the indexing_in_progress payload returned when the wait fails
InProgress(r, msg) ==
    /\ rd' = [rd EXCEPT ![r] = [pc |-> "done", waited |-> 0, msg |-> msg,
                                resp |-> "indexing_in_progress", read |-> FALSE,
                                rows |-> {}, progress |-> get_indexing_progress]]
    /\ no_index

\* call_tool for search_symbols, get_file_symbols, get_symbol_content,
\* list_files: the check of the store's status that starts the wait
ReadBegin(r, ok) ==
    /\ booted /\ wd = "idle"
    /\ rd[r].pc # "waiting"
    /\ IF db_exists /\ status = "indexing"
       THEN /\ rd' = [rd EXCEPT ![r] = [NoRead EXCEPT !.pc = "waiting"]]
            /\ no_index
       ELSE RunTool(r, ok, "none")
    /\ diag' = "none"
    /\ UNCHANGED <<booted, wd, watchdog_due, staleness_due, store_vars, fs_vars, idx_vars>>

\* a call_tool that runs the tool whatever the wait returned
wait_for_indexing_ignored(r, ok) ==
    IF rd[r].waited < WaitBound
    THEN IF index_status = "completed"
         THEN RunTool(r, ok, "indexing completed")
         ELSE IF index_status = "failed"
              THEN RunTool(r, ok, "indexing failed")
              ELSE /\ rd' = [rd EXCEPT ![r].waited = @ + PollInterval]
                   /\ no_index
    ELSE RunTool(r, ok, "timeout waiting for indexing")

\* a wait loop that never looks at the clock
wait_for_indexing_unbounded(r, ok) ==
    IF index_status = "completed"
    THEN RunTool(r, ok, "indexing completed")
    ELSE IF index_status = "failed"
         THEN InProgress(r, "indexing failed")
         ELSE /\ rd' = [rd EXCEPT ![r].waited = @ + PollInterval]
              /\ no_index

\* wait_for_indexing: one turn of its loop, and what call_tool does when it returns
wait_for_indexing(r, ok) ==
    IF rd[r].waited < WaitBound
    THEN IF index_status = "completed"
         THEN RunTool(r, ok, "indexing completed")
         ELSE IF index_status = "failed"
              THEN InProgress(r, "indexing failed")
              ELSE /\ rd' = [rd EXCEPT ![r].waited = @ + PollInterval]
                   /\ no_index
    ELSE InProgress(r, "timeout waiting for indexing")

ReadPoll(r, ok) ==
    /\ booted /\ wd = "idle"
    /\ rd[r].pc = "waiting"
    /\ wait_for_indexing(r, ok)
    /\ diag' = "none"
    /\ UNCHANGED <<booted, wd, watchdog_due, staleness_due, store_vars, fs_vars, idx_vars>>

\* files are added to the tree or removed from it between two runs
ChangeTree(tr) ==
    /\ tr # tree
    /\ tree' = tr
    /\ modified' = modified \cap tr
    /\ quiet
    /\ UNCHANGED <<svc_vars, children, store_vars, cache, idx_vars, rd>>

\* ------------------------------------------------------------------------
\* The status and control operations of call_tool
\* ------------------------------------------------------------------------
\* call_tool: the tools that are not made to wait for a running extraction
UnguardedTools ==
    {"repo_map_status", "reindex_repo_map", "wait_for_index", "md_outline",
     "md_get_section", "md_list_tables", "md_get_table", "md_list_figures"}

\* a guard that makes every tool wait
Guarded_every(name) == TRUE

\* call_tool: "if name not in [...]", the tools that wait while status = indexing
Guarded(name) == name \notin UnguardedTools

\* call_tool: the tool call is held back to wait for the extraction
MustWait(name) == Guarded(name) /\ db_exists /\ status = "indexing"

\* the answer a status or control operation returns to its caller
Reply(resp, msg) ==
    [pc |-> "done", waited |-> 0, msg |-> msg, resp |-> resp, read |-> FALSE,
     rows |-> {}, progress |-> NoPayload]

\* a status call whose staleness check writes to the store
StatusCall_touching(r) ==
    /\ booted /\ wd = "idle"
    /\ rd[r].pc # "waiting"
    /\ rd' = [rd EXCEPT ![r] = Reply("status", is_stale[2])]
    /\ modified' = {}
    /\ no_index
    /\ diag' = "none"
    /\ UNCHANGED <<booted, wd, watchdog_due, staleness_due, store_vars, cache, tree,
                   idx_vars>>

\* call_tool("repo_map_status"): the answer carries the staleness reason
StatusCall(r) ==
    /\ booted /\ wd = "idle"
    /\ rd[r].pc # "waiting"
    /\ IF MustWait("repo_map_status")
       THEN rd' = [rd EXCEPT ![r] = [NoRead EXCEPT !.pc = "waiting"]]
       ELSE rd' = [rd EXCEPT ![r] = Reply("status", is_stale[2])]
    /\ no_index
    /\ diag' = "none"
    /\ UNCHANGED <<booted, wd, watchdog_due, staleness_due, store_vars, fs_vars, idx_vars>>

\* reindex_repo_map(force): the dict it returns, as <<status, reason>>
reindex_reply(force) ==
    IF is_indexing THEN <<"indexing already in progress", "none">>
    ELSE IF ~force /\ ~is_stale[1] THEN <<"index is fresh", is_stale[2]>>
    ELSE <<"indexing started in background", "none">>

\* call_tool("reindex_repo_map", force)
ReindexCall(r, force, ok) ==
    /\ booted /\ wd = "idle"
    /\ rd[r].pc # "waiting"
    /\ IF MustWait("reindex_repo_map")
       THEN /\ rd' = [rd EXCEPT ![r] = [NoRead EXCEPT !.pc = "waiting"]]
            /\ no_index
       ELSE /\ reindex_repo_map(force, ok)
            /\ rd' = [rd EXCEPT ![r] = Reply(reindex_reply(force)[1], reindex_reply(force)[2])]
    /\ diag' = "none"
    /\ UNCHANGED <<booted, wd, watchdog_due, staleness_due, store_vars, fs_vars, idx_vars>>

\* ------------------------------------------------------------------------
\* The specification
\* ------------------------------------------------------------------------
Init ==
    /\ booted = FALSE
    /\ handle = NoProc
    /\ last_index_time = Never
    /\ index_error = "none"
    /\ do_index_ret = "none"
    /\ diag = "none"
    /\ wd = "idle"
    /\ watchdog_due = FALSE
    /\ staleness_due = FALSE
    /\ children = [c \in Children |-> FreeChild]
    /\ db_exists = FALSE
    /\ status = "unknown"
    /\ index_start_time = NoTime
    /\ error_message = "none"
    /\ cache = NoCache
    /\ tree = Files
    /\ modified = {}
    /\ symbols = {}
    /\ progress = NoProgress
    /\ query = NoQuery
    /\ rd = [r \in Readers |-> NoRead]

\* the supervisor, the extraction child and the environment
SupNext ==
    \/ \E ok \in SpawnOutcomes : Startup(ok)
    \/ WatchdogSweep
    \/ WatchdogKill
    \/ \E ok \in SpawnOutcomes : StalenessSweep(ok)
    \/ \E force \in BOOLEAN, ok \in SpawnOutcomes : Reindex(force, ok)
    \/ \E ok \in SpawnOutcomes : DirectDoIndex(ok)
    \/ \E c \in Children : ChildBegin(c)
    \/ \E c \in Children : ChildCommit(c)
    \/ \E c \in Children : ChildFail(c)
    \/ \E c \in Children : ChildExit(c)
    \/ \E c \in Children, rc \in FailureCodes : ChildCrash(c, rc)
    \/ Tick
    \/ \E f \in Files : EditFile(f)

\* the guarded reads
ReadNext ==
    \/ \E r \in Readers, ok \in SpawnOutcomes : ReadBegin(r, ok)
    \/ \E r \in Readers, ok \in SpawnOutcomes : ReadPoll(r, ok)

\* one lifetime of the service process
Next == SupNext \/ ReadNext

Spec == Init /\ [][Next]_vars

\* the supervisor alone, with the sweeps that the event loop keeps running
\* and a clock that keeps advancing
LiveSpec ==
    /\ Init /\ [][SupNext]_vars
    /\ WF_vars(Tick)
    /\ WF_vars(WatchdogSweep)
    /\ WF_vars(WatchdogKill)
    /\ WF_vars(\E ok \in SpawnOutcomes : StalenessSweep(ok))
    /\ WF_vars(\E ok \in SpawnOutcomes : Startup(ok))

\* the event loop runs every handler that is ready: a watchdog pass runs to
\* its end, and a waiting read is resumed after each of its sleeps however
\* often a watchdog pass gets in between
ReadLiveSpec ==
    /\ Spec
    /\ \A r \in Readers : SF_vars(\E ok \in SpawnOutcomes : ReadPoll(r, ok))
    /\ WF_vars(WatchdogKill)

\* service processes one after the other: each may end at any time and leave
\* its child running
LifeNext == SupNext \/ Restart

LifeSpec == Init /\ [][LifeNext]_vars

\* the status and control operations, with the supervisor, the child and the
\* environment
CtlNext ==
    \/ SupNext
    \/ \E r \in Readers : StatusCall(r)
    \/ \E r \in Readers, force \in BOOLEAN, ok \in SpawnOutcomes : ReindexCall(r, force, ok)

CtlSpec == Init /\ [][CtlNext]_vars

\* the stores, caches and trees the staleness checks are tried on: a tree
\* one file longer than the sample, and small ones
BigTree == 1..(SampleSize + 1)
TreeChoices == {{}, {1}, {1, 2}, BigTree}
CacheChoices ==
    {NoCache} \cup
    {[exists |-> TRUE, ok |-> FALSE, version |-> 0, files |-> {}]} \cup
    {[exists |-> TRUE, ok |-> TRUE, version |-> v, files |-> fs] :
        v \in {CACHE_VERSION - 1, CACHE_VERSION}, fs \in TreeChoices}
ModifiedChoices == {{}, {1}, {2}, {SampleSize + 1}}

\* a running service with no extraction under way, on any of these
StaleInit ==
    /\ booted = TRUE
    /\ handle = NoProc
    /\ last_index_time = Never
    /\ index_error = "none"
    /\ do_index_ret = "none"
    /\ diag = "none"
    /\ wd = "idle"
    /\ watchdog_due = FALSE
    /\ staleness_due = FALSE
    /\ children = [c \in Children |-> FreeChild]
    /\ db_exists \in BOOLEAN
    /\ status = IF db_exists THEN "completed" ELSE "unknown"
    /\ index_start_time = IF db_exists THEN [kind |-> "valid", age |-> AgeCap] ELSE NoTime
    /\ error_message = "none"
    /\ cache \in CacheChoices
    /\ tree \in TreeChoices
    /\ modified \in {m \in ModifiedChoices : m \subseteq tree /\ (~db_exists => m = {})}
    /\ symbols = IF db_exists /\ cache.exists /\ cache.ok THEN Rows(cache.files) ELSE {}
    /\ progress = IF symbols = {} THEN NoProgress
                  ELSE Progress(Cardinality(cache.files), Cardinality(cache.files))
    /\ query = NoQuery
    /\ rd = [r \in Readers |-> NoRead]

\* the staleness checks alone: the periodic sweeps and the status call
StaleNext ==
    \/ \E r \in Readers : StatusCall(r)
    \/ \E ok \in SpawnOutcomes : StalenessSweep(ok)
    \/ WatchdogSweep
    \/ Tick

StaleSpec == StaleInit /\ [][StaleNext]_vars

\* the same with the sweeps running for ever and the clock advancing
StaleLiveSpec ==
    /\ StaleSpec
    /\ WF_vars(Tick)
    /\ WF_vars(WatchdogSweep)
    /\ WF_vars(\E ok \in SpawnOutcomes : StalenessSweep(ok))

\* ------------------------------------------------------------------------
\* Properties
\* ------------------------------------------------------------------------
WatchdogMsg == "Watchdog killed hung indexer"

\* the store shows status = indexing with a start time past the deadline
StaleIndexing ==
    /\ db_exists
    /\ status = "indexing"
    /\ index_start_time.kind = "valid"
    /\ index_start_time.age > Deadline

C1_WitnessLiveChild ==
    wd = "marked" /\ is_indexing /\ status = "failed" /\ error_message = WatchdogMsg

\* the children this service process spawned that are still running
LiveChildren == {c \in Children : children[c].st = "running" /\ children[c].mine}

\* C2: at most one extraction child spawned by the service is alive
C2_AtMostOneChild == Cardinality(LiveChildren) <= 1

\* C2 witness: the index is stale, one child is live and a further request to
\* start an extraction has just been turned away
C2_WitnessContention ==
    /\ Cardinality(LiveChildren) = 1
    /\ is_stale[1]
    /\ do_index_ret = "indexing already in progress"

\* C3: do_index called while the handle refers to a live child returns
\* (False, "indexing already in progress") and changes neither the handle, the
\* processes, the last-index time nor the last error
C3_RefusesWhileLive ==
    [][(is_indexing /\ \E ok \in BOOLEAN : DirectDoIndex(ok))
        => /\ do_index_ret' = "indexing already in progress"
           /\ UNCHANGED <<handle, children, last_index_time, index_error>>]_vars

\* C3 witness: do_index has just refused, the child it found is running and
\* has been for a while
C3_WitnessRefused ==
    /\ do_index_ret = "indexing already in progress"
    /\ is_indexing
    /\ last_index_time.age > 0

\* C4: the watchdog never has status = failed committed while the hung child
\* it is about to kill is still running
C4_KillBeforeMark == ~(wd = "marked" /\ status = "failed" /\ is_indexing)

\* C5: whenever the status is indexing it eventually becomes completed or failed
C5_NeverStuckIndexing ==
    (db_exists /\ status = "indexing") ~> (status \in {"completed", "failed"})

FailureDiags ==
    {"exceeded CPU time limit", "crashed", "was killed", "exited with signal",
     "exited with error code"}

\* C6: once the reap step has observed a child that ended by a signal or with
\* a nonzero code, the status becomes failed
C6_FailureMarksFailed == (diag \in FailureDiags) ~> (status = "failed")

\* C7: status = indexing implies index_start_time is set to a parseable timestamp
C7_IndexingHasStart ==
    (db_exists /\ status = "indexing") => index_start_time.kind = "valid"

\* C7 witness: a run is recorded and it is past the deadline
C7_WitnessIndexing ==
    db_exists /\ status = "indexing" /\ index_start_time.age > Deadline

\* C8: a guarded read that waited returns the tool's result, read from the
\* symbols table, when a poll within the bound finds status = completed, and
\* otherwise the indexing_in_progress payload without reading the table
C8_WaitOutcome ==
    [][\A r \in Readers :
         (rd[r].pc = "waiting" /\ rd'[r].pc = "done")
           => IF index_status = "completed" /\ rd[r].waited < WaitBound
              THEN rd'[r].resp = "result" /\ rd'[r].read
              ELSE rd'[r].resp = "indexing_in_progress" /\ ~rd'[r].read]_vars

\* C8 witness: a read that waited, saw the run complete and got its result
C8_WitnessCompleted ==
    \E r \in Readers :
        rd[r].pc = "done" /\ rd[r].msg = "indexing completed" /\ rd[r].resp = "result"

\* C8, the other case: a read that waited out the whole bound
C8_WitnessTimeout ==
    \E r \in Readers :
        /\ rd[r].pc = "done" /\ rd[r].msg = "timeout waiting for indexing"
        /\ rd[r].resp = "indexing_in_progress"

\* C9: a guarded read never waits longer than the bound, and every read that
\* waits returns
C9_ReadReturns ==
    /\ [](\A r \in Readers : rd[r].waited <= WaitBound)
    /\ \A r \in Readers : (rd[r].pc = "waiting") ~> (rd[r].pc = "done")

\* C9 witness: a read has waited the whole bound while the run is still recorded
\* as indexing
C9_WitnessFullWait ==
    \E r \in Readers :
        rd[r].pc = "waiting" /\ rd[r].waited = WaitBound /\ status = "indexing"

\* C10: a read that waited and saw the status become failed is not answered
\* with the indexing_in_progress payload
C10_FailedIsNotInProgress ==
    \A r \in Readers :
        (rd[r].pc = "done" /\ rd[r].msg = "indexing failed")
            => rd[r].resp # "indexing_in_progress"

\* C11: repo_map_status and reindex_repo_map are answered in the step that
\* calls them, whatever the status of the store: they never start to wait
C11_ControlNeverWaits ==
    [][\A r \in Readers :
         (StatusCall(r) \/ \E force, ok \in BOOLEAN : ReindexCall(r, force, ok))
           => rd'[r].pc = "done"]_vars

\* C11 witness: a status call has been answered while the store says indexing
C11_WitnessStatusWhileIndexing ==
    \E r \in Readers :
        rd[r].pc = "done" /\ rd[r].resp = "status" /\ db_exists /\ status = "indexing"

\* a step that leaves the supervisor as it was and calls do_index not at all
NothingStarted ==
    do_index_ret' = "none" /\ UNCHANGED <<handle, children, last_index_time, index_error>>

\* C12: reindex_repo_map reports a running extraction and starts nothing;
\* else, not forced and not stale, it declines with the staleness reason and
\* starts nothing; else it calls do_index, once
C12_ReindexDecision ==
    [][\A r \in Readers, force \in BOOLEAN :
         (\E ok \in BOOLEAN : ReindexCall(r, force, ok))
           => IF is_indexing
              THEN rd'[r].resp = "indexing already in progress" /\ NothingStarted
              ELSE IF ~force /\ ~is_stale[1]
                   THEN /\ rd'[r].resp = "index is fresh"
                        /\ rd'[r].msg = "up to date"
                        /\ NothingStarted
                   ELSE /\ rd'[r].resp = "indexing started in background"
                        /\ do_index_ret' \in {"indexing started in subprocess",
                                              "failed to start indexing"}]_vars

\* C12 witness: an unforced request was declined on a fresh index
C12_WitnessDeclined ==
    \E r \in Readers : rd[r].resp = "index is fresh" /\ ~is_stale[1] /\ ~is_indexing

\* C12, the other cases: a request turned away by a running extraction, and
\* a request that started one
C12_WitnessBusy ==
    \E r \in Readers : rd[r].resp = "indexing already in progress" /\ is_indexing

C12_WitnessStarted ==
    \E r \in Readers :
        /\ rd[r].resp = "indexing started in background"
        /\ do_index_ret = "indexing started in subprocess"

\* the checks of the staleness detector, each with the reason it gives
StoreAbsent == <<~db_exists, "database does not exist">>
CacheAbsent == <<~cache.exists, "cache file missing">>
CacheUnreadable == <<cache.exists /\ ~cache.ok, "cache file corrupt">>
VersionMismatch == <<cache.version # CACHE_VERSION, "cache version mismatch">>
CountDiffers == <<Cardinality(cache.files) # Cardinality(tree), "file count changed">>
SampledNewer ==
    <<\E f \in tree : f \in modified /\ Cardinality({g \in tree : g < f}) < SampleSize,
      "files modified since last index">>

FiveChecks == <<StoreAbsent, CacheAbsent, VersionMismatch, CountDiffers, SampledNewer>>
SixChecks ==
    <<StoreAbsent, CacheAbsent, CacheUnreadable, VersionMismatch, CountDiffers, SampledNewer>>

\* the reason of the first check of cs that fires, "up to date" if none does
FirstFiring(cs) ==
    IF \E i \in 1..Len(cs) : cs[i][1]
    THEN cs[CHOOSE i \in 1..Len(cs) : cs[i][1] /\ \A j \in 1..(i - 1) : ~cs[j][1]][2]
    ELSE "up to date"

\* what is_stale returns, seen through its callers: the reason in the answer
\* of a status call, the verdict in whether the sweep starts an extraction
StaleVerdictIs(cs) ==
    /\ \A r \in Readers : StatusCall(r) => rd'[r].msg = FirstFiring(cs)
    /\ (~is_indexing /\ \E ok \in BOOLEAN : StalenessSweep(ok))
         => ((do_index_ret' # "none") <=> (FirstFiring(cs) # "up to date"))

\* C13 as stated: five checks in order, store absent, cache absent, version
\* mismatch, file count, sampled file newer; "up to date" exactly when none fires
C13_FiveChecksInOrder == [][StaleVerdictIs(FiveChecks)]_vars

\* C13 amended: six checks in order, with "cache file corrupt" for a cache
\* that does not parse between cache absent and version mismatch; "up to
\* date" exactly when none of the six fires
C13_SixChecksInOrder == [][StaleVerdictIs(SixChecks)]_vars

\* C13 witness: a status call answered on a cache that does not parse
C13_WitnessCorruptCache ==
    \E r \in Readers :
        rd[r].resp = "status" /\ rd[r].msg = "cache file corrupt" /\ CacheUnreadable[1]

\* C13, further cases: the last check fired, and none did
C13_WitnessSampledNewer ==
    \E r \in Readers :
        rd[r].resp = "status" /\ rd[r].msg = "files modified since last index"

C13_WitnessUpToDate ==
    \E r \in Readers : rd[r].resp = "status" /\ rd[r].msg = "up to date"

\* C14: a call of is_stale changes neither the store, the cache, the tree nor
\* the supervisor's handle and processes, and with nothing changed in between
\* it returns what the call before it returned
C14_StaleCheckIsPure ==
    [][\A r \in Readers :
         StatusCall(r)
           => /\ UNCHANGED <<store_vars, fs_vars, idx_vars, handle, children>>
              /\ rd[r].resp = "status" => rd'[r].msg = rd[r].msg]_vars

\* C14 witness: a status call has been answered on an index with modified
\* files, and the files are still marked modified, the answer still holds
\* and no extraction was started
C14_WitnessAnswered ==
    \E r \in Readers :
        /\ rd[r].resp = "status" /\ rd[r].msg = "files modified since last index"
        /\ modified # {} /\ is_stale[2] = rd[r].msg
        /\ handle = NoProc

\* C15: a file that stays newer than the store while is_stale says "up to
\* date" is eventually reported as modified
C15_MissedStalenessFound ==
    (modified # {} /\ ~is_stale[1]) ~> (is_stale[2] = "files modified since last index")

\* C15 witness: a modified file past the sample, and sweeps that have run
C15_WitnessBeyondSample ==
    /\ (SampleSize + 1) \in modified
    /\ is_stale[2] = "up to date"
    /\ last_index_time = Never
    /\ watchdog_due /\ ~staleness_due

\* the extraction children left running by a service process that has ended
Orphans == {c \in Children : children[c].st = "running" /\ ~children[c].mine}

\* C16: the startup of a service process that finds status = indexing with a
\* start time past the deadline leaves the store failed, with the watchdog's
\* message, also when the same startup goes on to start an extraction
C16_StartupReconciles ==
    [][(StaleIndexing /\ \E ok \in BOOLEAN : Startup(ok))
        => (status' = "failed" /\ error_message' = WatchdogMsg)]_vars

\* C16 witness: the run of a previous process is marked failed, its child is
\* still there, and the new process has started its own extraction
C16_WitnessReconciled ==
    /\ booted /\ wd = "idle"
    /\ status = "failed" /\ error_message = WatchdogMsg
    /\ index_start_time.age > Deadline
    /\ Orphans # {}
    /\ do_index_ret = "indexing started in subprocess"

\* the exit statuses the reap step tells apart, each with what it logs
ExitClasses ==
    {<<0, "completed successfully">>, <<-SIGXCPU, "exceeded CPU time limit">>,
     <<-SIGSEGV, "crashed">>, <<-SIGKILL, "was killed">>,
     <<-OtherSignal, "exited with signal">>, <<1, "exited with error code">>}

\* C17: the reap step of a sweep does nothing with an empty handle, leaves the
\* handle of a running child alone, and clears the handle of an exited child
\* whatever its exit status, logging the class of that status
C17_ReapClearsExited ==
    [][WatchdogSweep
        => IF handle = NoProc
           THEN handle' = NoProc /\ diag' = "none" /\ children' = children
           ELSE IF children[handle].st = "running"
                THEN handle' = handle /\ diag' = "none" /\ children' = children
                ELSE /\ handle' = NoProc
                     /\ <<children[handle].rc, diag'>> \in ExitClasses]_vars

\* C17 witness: a sweep has just reaped a child that ended by a signal
C17_WitnessReapedSignal ==
    handle = NoProc /\ diag = "exited with signal" /\ LiveChildren = {}

\* C17, the other cases: a sweep has left a running child's handle alone, and
\* a sweep has reaped a clean exit
C17_WitnessKeptRunning ==
    is_indexing /\ ~watchdog_due /\ diag = "none" /\ last_index_time.age > 0

C17_WitnessReapedClean ==
    handle = NoProc /\ diag = "completed successfully"

\* ------------------------------------------------------------------------
\* Reads of the symbols table while runs replace it
\* ------------------------------------------------------------------------
\* the trees the runs of this specification index, one after the other
EpochTrees == {{1}, {1, 2}, {2}}

\* runs that succeed over a changing tree, and the guarded reads beside them
EpochNext ==
    \/ \E ok \in SpawnOutcomes : Startup(ok)
    \/ WatchdogSweep
    \/ \E ok \in SpawnOutcomes : StalenessSweep(ok)
    \/ \E c \in Children : ChildBegin(c)
    \/ \E c \in Children : ChildCommit(c)
    \/ \E c \in Children : ChildExit(c)
    \/ \E tr \in EpochTrees : ChangeTree(tr)
    \/ Tick
    \/ \E r \in Readers, ok \in SpawnOutcomes : ReadBegin(r, ok)
    \/ \E r \in Readers, ok \in SpawnOutcomes : ReadPoll(r, ok)

EpochSpec == Init /\ [][EpochNext]_vars

\* the symbols table as exactly one completed run left it
OneEpoch(rows) == \E tr \in EpochTrees : rows = Rows(tr)

\* C18: what a query reads from the symbols table is the empty table of a
\* store no run has completed on, or exactly the symbols of one completed
\* run, never rows of two runs, also while an extraction is running or has
\* just committed
C18_ReadsSeeOneEpoch ==
    \A r \in Readers : rd[r].read => (rd[r].rows = {} \/ OneEpoch(rd[r].rows))

\* a query has read the previous run's symbols while a new extraction, over a
\* different tree, is in flight
C18_WitnessReadBesideRun ==
    \E r \in Readers, c \in Children :
        /\ rd[r].read /\ rd[r].rows # {}
        /\ Running(c) /\ children[c].phase = "spawned"
        /\ rd[r].rows # Rows(tree)
        /\ rd[r].rows = symbols

\* a query has read the new run's symbols after having read the previous run's
C18_WitnessReadNewEpoch ==
    \E r \in Readers :
        /\ rd[r].read /\ rd[r].rows = Rows({1, 2})
        /\ symbols = Rows({1, 2}) /\ cache.files = {1, 2}

\* ------------------------------------------------------------------------
\* Concurrent guarded reads beside one run
\* ------------------------------------------------------------------------
\* the callers whose search_symbols calls overlap
Callers == {"r1", "r2"}
\* the tree of the run the callers wait on
ProgressTree == {1, 2}

\* the service is up, a run completed earlier, and a new one has just begun
ProgressInit ==
    /\ booted = TRUE
    /\ handle = 1
    /\ last_index_time = [set |-> TRUE, age |-> 0]
    /\ index_error = "none"
    /\ do_index_ret = "none"
    /\ diag = "none"
    /\ wd = "idle"
    /\ watchdog_due = FALSE
    /\ staleness_due = FALSE
    /\ children = [c \in Children |->
            IF c = 1 THEN [st |-> "running", phase |-> "indexing", rc |-> 0, mine |-> TRUE]
            ELSE FreeChild]
    /\ db_exists = TRUE
    /\ status = "indexing"
    /\ index_start_time = [kind |-> "valid", age |-> 0]
    /\ error_message = "none"
    /\ cache = [exists |-> TRUE, ok |-> TRUE, version |-> CACHE_VERSION, files |-> ProgressTree]
    /\ tree = ProgressTree
    /\ modified = {}
    /\ symbols = Rows(ProgressTree)
    /\ progress = Progress(0, Cardinality(ProgressTree))
    /\ query = NoQuery
    /\ rd = [r \in Callers |-> NoRead]

\* one run, its progress, the sweeps, and the overlapping calls
ProgressNext ==
    \/ \E c \in Children : ChildParse(c)
    \/ \E c \in Children : ChildCommit(c)
    \/ \E c \in Children : ChildExit(c)
    \/ WatchdogSweep
    \/ WatchdogKill
    \/ \E ok \in SpawnOutcomes : StalenessSweep(ok)
    \/ Tick
    \/ \E r \in Callers, ok \in SpawnOutcomes : ReadBegin(r, ok)
    \/ \E r \in Callers, ok \in SpawnOutcomes : ReadPoll(r, ok)

ProgressSpec == ProgressInit /\ [][ProgressNext]_vars

\* the call of r has waited its 15 seconds out
TimedOut(r) == rd[r].pc = "waiting" /\ rd[r].waited >= WaitBound

\* the answers a call can end with that are not an error
NoReadError(r) == rd'[r].resp \in {"indexing_in_progress", "result"}

DefaultLimit == 20
\* the rows of the symbols tables that are enumerated
MaxRows == 2

\* names and patterns are sequences of characters.  The names enumerated: two
\* that differ in case, the underscore, and names of two characters
NameChoices ==
    {<<"a">>, <<"A">>, <<"_">>, <<"a", "a">>, <<"a", "_">>, <<"_", "a">>, <<"A", "a">>}
Kinds == {"function", "class"}

\* the characters of the model in the order of their codes, which is the
\* order of sqlite's default (BINARY) collation
AsciiOrder == <<"%", "*", "?", "A", "G", "_", "a", "d", "e", "g", "o", "r", "s", "t", "u">>
Code(c) == CHOOSE i \in 1..Len(AsciiOrder) : AsciiOrder[i] = c

\* LIKE folds the case of ASCII letters
Lower(c) == IF c = "A" THEN "a" ELSE IF c = "G" THEN "g" ELSE c

get_user == <<"g", "e", "t", "_", "u", "s", "e", "r">>
get_order == <<"g", "e", "t", "_", "o", "r", "d", "e", "r">>
set_user == <<"s", "e", "t", "_", "u", "s", "e", "r">>
getter == <<"g", "e", "t", "t", "e", "r">>
get_star == <<"g", "e", "t", "_", "*">>

Fn(name) == [name |-> name, kind |-> "function"]

\* the store of the specification's example, and one with a name that LIKE
\* takes for a match of get_*
ExampleStore == {Fn(get_user), Fn(get_order), Fn(set_user)}
GetterStore == {Fn(getter), Fn(set_user)}

SmallRows == [name : NameChoices, kind : Kinds]

RECURSIVE RowSets(_)
RowSets(n) ==
    IF n = 0 THEN {{}}
    ELSE LET less == RowSets(n - 1)
         IN  less \cup {st \cup {row} : st \in less, row \in SmallRows}

StoreChoices == RowSets(MaxRows) \cup {ExampleStore, GetterStore}
\* the patterns enumerated: literals, * and ? alone and beside a literal, the
\* underscore that LIKE takes for a wildcard, and the example's get_*
PatternChoices ==
    {<<"a">>, <<"_">>, <<"*">>, <<"?">>, <<"a", "*">>, <<"a", "?">>, <<"a", "_">>,
     <<"_", "*">>, <<"*", "a">>, <<"?", "a">>, get_star}
KindChoices == Kinds \cup {"none"}
LimitChoices == {1, 2, DefaultLimit}

\* search_symbols: pattern.replace("*", "%").replace("?", "_")
sql_pattern(pattern) ==
    [i \in 1..Len(pattern) |->
        IF pattern[i] = "*" THEN "%" ELSE IF pattern[i] = "?" THEN "_" ELSE pattern[i]]

\* sqlite's "name LIKE ?": % is any run of characters, _ is any one
\* character, letters match without regard to case
RECURSIVE Like(_, _)
Like(name, pat) ==
    IF pat = <<>> THEN name = <<>>
    ELSE IF Head(pat) = "%"
         THEN Like(name, Tail(pat)) \/ (name # <<>> /\ Like(Tail(name), pat))
         ELSE /\ name # <<>>
              /\ Head(pat) = "_" \/ Lower(Head(name)) = Lower(Head(pat))
              /\ Like(Tail(name), Tail(pat))

\* fnmatch.fnmatch(name, pattern): * is any run of characters, ? is any one
\* character, every other character stands for itself
RECURSIVE fnmatch(_, _)
fnmatch(name, pat) ==
    IF pat = <<>> THEN name = <<>>
    ELSE IF Head(pat) = "*"
         THEN fnmatch(name, Tail(pat)) \/ (name # <<>> /\ fnmatch(Tail(name), pat))
         ELSE /\ name # <<>>
              /\ Head(pat) = "?" \/ Head(name) = Head(pat)
              /\ fnmatch(Tail(name), Tail(pat))

\* "ORDER BY name": a before b
RECURSIVE NameLess(_, _)
NameLess(a, b) ==
    IF b = <<>> THEN FALSE
    ELSE IF a = <<>> THEN TRUE
    ELSE IF Head(a) # Head(b) THEN Code(Head(a)) < Code(Head(b))
    ELSE NameLess(Tail(a), Tail(b))

\* the orders "ORDER BY name" can return the rows in: rows of one name come
\* in any order
Orderings(rows) ==
    {sq \in [1..Cardinality(rows) -> rows] :
        /\ \A i, j \in DOMAIN sq : i # j => sq[i] # sq[j]
        /\ \A i, j \in DOMAIN sq : i < j => ~NameLess(sq[j].name, sq[i].name)}

\* "SELECT * FROM symbols WHERE name LIKE ? [AND kind = ?]": the rows selected
Selected(pattern, kind) ==
    {row \in symbols :
        /\ Like(row.name, sql_pattern(pattern))
        /\ kind # "none" => row.kind = kind}

\* sq[:n]
Take(sq, n) == SubSeq(sq, 1, Min(n, Len(sq)))

\* search_symbols on the rows the SELECT returned in the order ordered: the
\* LIMIT, the fnmatch filter, the fall back to the SQL rows, the slice
search_symbols(ordered, pattern, limit) ==
    LET rows == Take(ordered, limit)
        matching == SelectSeq(rows, LAMBDA row : fnmatch(row.name, pattern))
        results == IF matching = <<>> THEN rows ELSE matching
    IN  Take(results, limit)

\* a call of search_symbols(pattern, kind, limit)
SearchSymbols(pattern, kind, limit) ==
    /\ booted /\ db_exists
    /\ \E ordered \in Orderings(Selected(pattern, kind)) :
          query' = [tool |-> "search_symbols", pattern |-> pattern, kind |-> kind,
                    limit |-> limit, out |-> search_symbols(ordered, pattern, limit)]
    /\ quiet
    /\ UNCHANGED <<svc_vars, children, store_vars, fs_vars, symbols, progress, rd>>

\* a service that is up on a completed store of any of the enumerated contents
QueryInit ==
    /\ booted = TRUE
    /\ handle = NoProc
    /\ last_index_time = Never
    /\ index_error = "none"
    /\ do_index_ret = "none"
    /\ diag = "none"
    /\ wd = "idle"
    /\ watchdog_due = FALSE
    /\ staleness_due = FALSE
    /\ children = [c \in Children |-> FreeChild]
    /\ db_exists = TRUE
    /\ status = "completed"
    /\ index_start_time = [kind |-> "valid", age |-> AgeCap]
    /\ error_message = "none"
    /\ cache = [exists |-> TRUE, ok |-> TRUE, version |-> CACHE_VERSION, files |-> Files]
    /\ tree = Files
    /\ modified = {}
    /\ symbols \in StoreChoices
    /\ progress = Progress(Cardinality(Files), Cardinality(Files))
    /\ query = NoQuery
    /\ rd = [r \in Readers |-> NoRead]

\* one call in a behaviour: a query function keeps nothing between calls, so a
\* call made after another is the call made first
QueryNext ==
    /\ query = NoQuery
    /\ \E pattern \in PatternChoices, kind \in KindChoices, limit \in LimitChoices :
          SearchSymbols(pattern, kind, limit)

QuerySpec == QueryInit /\ [][QueryNext]_vars

\* the names of the rows a query returned, in their order
OutNames == [i \in DOMAIN query.out |-> query.out[i].name]

\* C20: every symbol search_symbols returns has a name that matches the glob
\* pattern and, when a kind is given, that kind; and get_* over get_user,
\* get_order, set_user returns exactly get_order and get_user
C20_TrueGlobSemantics ==
    query.tool = "search_symbols" =>
        /\ \A i \in DOMAIN query.out :
              /\ fnmatch(query.out[i].name, query.pattern)
              /\ query.kind # "none" => query.out[i].kind = query.kind
        /\ (symbols = ExampleStore /\ query.pattern = get_star /\ query.kind = "none"
              /\ query.limit >= 2)
           => OutNames = <<get_order, get_user>>

\* get_* over a store that holds getter has returned getter
C20_WitnessGetter ==
    /\ query.tool = "search_symbols" /\ query.pattern = get_star
    /\ symbols = GetterStore
    /\ OutNames = <<getter>>

\* the row matches the glob pattern and the kind filter of the query
Matches(row) ==
    /\ fnmatch(row.name, query.pattern)
    /\ query.kind # "none" => row.kind = query.kind

\* C21: search_symbols returns at most limit rows, in the order of their
\* names, and a symbol that matches the glob and the kind filter is missing
\* from them only if limit matching symbols with smaller or equal names are
\* returned
C21_FirstLimitMatches ==
    query.tool = "search_symbols" =>
        /\ Len(query.out) <= query.limit
        /\ \A i, j \in DOMAIN query.out :
              i < j => ~NameLess(query.out[j].name, query.out[i].name)
        /\ \A row \in symbols :
              (Matches(row) /\ \A i \in DOMAIN query.out : query.out[i] # row) =>
                 Cardinality({i \in DOMAIN query.out :
                                 /\ Matches(query.out[i])
                                 /\ ~NameLess(row.name, query.out[i].name)})
                    >= query.limit

\* a search for a with limit 1 over the names A and a has returned A alone
C21_WitnessLimitBeforeGlob ==
    /\ query.tool = "search_symbols" /\ query.pattern = <<"a">> /\ query.limit = 1
    /\ query.kind = "none"
    /\ symbols = {Fn(<<"A">>), Fn(<<"a">>)}
    /\ OutNames = <<(<<"A">>)>>

\* ------------------------------------------------------------------------
\* get_symbol_content
\* ------------------------------------------------------------------------
\* get_symbol_content: "end_line = min(start_line + 20, len(lines))"
Window == 20

\* no parent, and no end_line_number, in a row of the symbols table
NoParent == <<>>
NoEnd == 0

Sym(name, parent, kind, file, line, end) ==
    [name |-> name, parent |-> parent, kind |-> kind, file |-> file,
     line_number |-> line, end_line_number |-> end]

\* rows[0] of a SELECT that returned nothing: not looked at
NoRow == Sym(<<>>, NoParent, "none", 0, 0, NoEnd)

\* the rows the stores of this part are made of: bar declared by a class Foo
\* in each of two files, a function bar, and symbols of one name only, with
\* and without a recorded end line
ContentRows ==
    {Sym(<<"b">>, <<"F">>, "method", 1, 2, 4),
     Sym(<<"b">>, <<"F">>, "method", 2, 3, NoEnd),
     Sym(<<"b">>, NoParent, "function", 1, 1, 1),
     Sym(<<"c">>, <<"F">>, "method", 2, 5, 30),
     Sym(<<"c">>, NoParent, "function", 1, 2, NoEnd),
     Sym(<<"z">>, <<"G">>, "method", 2, 24, NoEnd)}

RECURSIVE RowSetsOf(_, _)
RowSetsOf(universe, n) ==
    IF n = 0 THEN {{}}
    ELSE LET less == RowSetsOf(universe, n - 1)
         IN  less \cup {st \cup {row} : st \in less, row \in universe}

ContentStores == RowSetsOf(ContentRows, MaxRows)

\* the names asked for: plain, qualified by a parent, and unknown
ContentNames ==
    {<<"b">>, <<"c">>, <<"F", ".", "b">>, <<"F", ".", "c">>, <<"G", ".", "b">>, <<"y">>}
ContentKinds == {"none", "method", "function"}

\* the live file behind a row when it is read: whether read_text succeeds,
\* and its number of lines
LiveChoices == [readable : BOOLEAN, len : {0, 3, 25, 30}]

\* the places of "." in name
Dots(name) == {i \in DOMAIN name : name[i] = "."}
\* the place of the last one
LastDot(name) == CHOOSE i \in Dots(name) : \A j \in Dots(name) : j <= i

\* "SELECT * FROM symbols WHERE name = ? [AND parent = ?] [AND kind = ?]" with
\* name.rsplit(".", 1) when the name has a dot
ContentRowsFor(name, kind) ==
    {row \in symbols :
        /\ IF Dots(name) # {}
           THEN /\ row.name = SubSeq(name, LastDot(name) + 1, Len(name))
                /\ row.parent = SubSeq(name, 1, LastDot(name) - 1)
           ELSE row.name = name
        /\ kind # "none" => row.kind = kind}

\* lines[start_line - 1:end_line] of a file of len lines, as the numbers of
\* the lines returned
Slice(start, end, len) == [i \in 1..(Min(end, len) - start + 1) |-> start + i - 1]

NoSlice == <<>>

\* a get_symbol_content that answers with the first of several rows
get_symbol_content_guessing(name, kind, first, live) ==
    LET rows == ContentRowsFor(name, kind)
        start == first.line_number
        end == IF first.end_line_number = NoEnd
               THEN Min(start + Window, live.len)
               ELSE first.end_line_number
    IN  IF rows = {} THEN [resp |-> "symbol not found", listed |-> {}, lines |-> NoSlice]
        ELSE IF first.file \notin tree
        THEN [resp |-> "File not found", listed |-> {first}, lines |-> NoSlice]
        ELSE IF ~live.readable
        THEN [resp |-> "Could not read file", listed |-> {first}, lines |-> NoSlice]
        ELSE [resp |-> "content", listed |-> {first}, lines |-> Slice(start, end, live.len)]

\* a get_symbol_content whose window ends at the recorded start line
get_symbol_content_no_window(name, kind, first, live) ==
    LET rows == ContentRowsFor(name, kind)
        start == first.line_number
        end == IF first.end_line_number = NoEnd
               THEN start
               ELSE first.end_line_number
    IN  IF rows = {} THEN [resp |-> "symbol not found", listed |-> {}, lines |-> NoSlice]
        ELSE IF Cardinality(rows) > 1 /\ kind = "none"
        THEN [resp |-> "ambiguous", listed |-> rows, lines |-> NoSlice]
        ELSE IF first.file \notin tree
        THEN [resp |-> "File not found", listed |-> {first}, lines |-> NoSlice]
        ELSE IF ~live.readable
        THEN [resp |-> "Could not read file", listed |-> {first}, lines |-> NoSlice]
        ELSE [resp |-> "content", listed |-> {first}, lines |-> Slice(start, end, live.len)]

\* get_symbol_content(name, kind), with first the row fetchall put first and
\* live the file of that row as it is when read
get_symbol_content(name, kind, first, live) ==
    LET rows == ContentRowsFor(name, kind)
        start == first.line_number
        end == IF first.end_line_number = NoEnd
               THEN Min(start + Window, live.len)
               ELSE first.end_line_number
    IN  IF rows = {} THEN [resp |-> "symbol not found", listed |-> {}, lines |-> NoSlice]
        ELSE IF Cardinality(rows) > 1 /\ kind = "none"
        THEN [resp |-> "ambiguous", listed |-> rows, lines |-> NoSlice]
        ELSE IF first.file \notin tree
        THEN [resp |-> "File not found", listed |-> {first}, lines |-> NoSlice]
        ELSE IF ~live.readable
        THEN [resp |-> "Could not read file", listed |-> {first}, lines |-> NoSlice]
        ELSE [resp |-> "content", listed |-> {first}, lines |-> Slice(start, end, live.len)]

\* a call of get_symbol_content(name, kind): the SELECT has no ORDER BY, so
\* any of the rows it returns can be the first
GetSymbolContent(name, kind, live) ==
    /\ booted /\ db_exists
    /\ \E first \in ContentRowsFor(name, kind) \cup {NoRow} :
          /\ first \in ContentRowsFor(name, kind) \/ ContentRowsFor(name, kind) = {}
          /\ query' = [tool |-> "get_symbol_content", name |-> name, kind |-> kind,
                       live |-> live, out |-> get_symbol_content(name, kind, first, live)]
    /\ quiet
    /\ UNCHANGED <<svc_vars, children, store_vars, fs_vars, symbols, progress, rd>>

\* a service that is up on a completed store; the second file of the store
\* may have been deleted since
ContentInit ==
    /\ booted = TRUE
    /\ handle = NoProc
    /\ last_index_time = Never
    /\ index_error = "none"
    /\ do_index_ret = "none"
    /\ diag = "none"
    /\ wd = "idle"
    /\ watchdog_due = FALSE
    /\ staleness_due = FALSE
    /\ children = [c \in Children |-> FreeChild]
    /\ db_exists = TRUE
    /\ status = "completed"
    /\ index_start_time = [kind |-> "valid", age |-> AgeCap]
    /\ error_message = "none"
    /\ cache = [exists |-> TRUE, ok |-> TRUE, version |-> CACHE_VERSION, files |-> {1, 2}]
    /\ tree \in {{1}, {1, 2}}
    /\ modified = {}
    /\ symbols \in ContentStores
    /\ progress = Progress(2, 2)
    /\ query = NoQuery
    /\ rd = [r \in Readers |-> NoRead]

\* one call in a behaviour, as in QueryNext
ContentNext ==
    /\ query = NoQuery
    /\ \E name \in ContentNames, kind \in ContentKinds, live \in LiveChoices :
          GetSymbolContent(name, kind, live)

ContentSpec == ContentInit /\ [][ContentNext]_vars

\* the name asked for is qualified by parent, and member is its last part
Qualified(name, parent, member) == name = parent \o <<".">> \o member

\* the symbols of the store that the name and the kind of the query stand for
Named ==
    {row \in symbols :
        /\ \/ row.name = query.name
           \/ Qualified(query.name, row.parent, row.name)
        /\ query.kind # "none" => row.kind = query.kind}

\* C22: get_symbol_content reports not-found when no symbol matches the name,
\* and when more than one matches and no kind is given it reports ambiguity
\* and lists every match, with no content
C22_NotFoundOrAmbiguous ==
    query.tool = "get_symbol_content" =>
        /\ Named = {} => query.out.resp = "symbol not found"
        /\ (Cardinality(Named) > 1 /\ query.kind = "none") =>
              /\ query.out.resp = "ambiguous"
              /\ query.out.listed = Named
              /\ query.out.lines = NoSlice

\* Foo.bar, with bar declared by a class Foo in each of two files, is
\* answered with the ambiguity report that lists both
C22_WitnessFooBar ==
    /\ query.tool = "get_symbol_content" /\ query.name = <<"F", ".", "b">>
    /\ query.kind = "none"
    /\ symbols = {Sym(<<"b">>, <<"F">>, "method", 1, 2, 4),
                  Sym(<<"b">>, <<"F">>, "method", 2, 3, NoEnd)}
    /\ query.out.resp = "ambiguous"
    /\ query.out.listed = symbols

\* a name no symbol has is answered with not-found
C22_WitnessNotFound ==
    /\ query.tool = "get_symbol_content" /\ query.name = <<"G", ".", "b">>
    /\ symbols # {}
    /\ query.out.resp = "symbol not found"

\* the one symbol the query stands for
TheNamed == CHOOSE row \in Named : TRUE

\* the last line asked for: the recorded end, or the end of the window
LastLine(row, len) ==
    IF row.end_line_number = NoEnd
    THEN Min(row.line_number + Window, len)
    ELSE row.end_line_number

\* the lines of a file of len lines from first to last, both included
LinesOf(first, last, len) == {n \in 1..len : first <= n /\ n <= last}

\* sq lists the numbers of set in rising order
Rising(sq, set) ==
    /\ Len(sq) = Cardinality(set)
    /\ \A i \in DOMAIN sq : sq[i] \in set
    /\ \A i, j \in DOMAIN sq : i < j => sq[i] < sq[j]

\* C23: on a unique match get_symbol_content returns the lines
\* line_number..end_line_number of the live file, or line_number..
\* min(line_number + 20, length) when no end line is recorded; a file that no
\* longer exists is reported as File not found and one that cannot be read
\* as Could not read file, neither of them the not-found-symbol answer
C23_ContentOfUniqueMatch ==
    (query.tool = "get_symbol_content" /\ Cardinality(Named) = 1) =>
        LET row == TheNamed
        IN  IF row.file \notin tree THEN query.out.resp = "File not found"
            ELSE IF ~query.live.readable THEN query.out.resp = "Could not read file"
            ELSE /\ query.out.resp = "content"
                 /\ Rising(query.out.lines,
                           LinesOf(row.line_number, LastLine(row, query.live.len),
                                   query.live.len))

\* a symbol with no end line in a file of 25 lines is answered with the 21
\* lines of the window
C23_WitnessWindow ==
    /\ query.tool = "get_symbol_content" /\ Cardinality(Named) = 1
    /\ TheNamed.end_line_number = NoEnd /\ TheNamed.line_number = 2
    /\ query.live.len = 25
    /\ query.out.resp = "content"
    /\ Len(query.out.lines) = Window + 1
    /\ query.out.lines[1] = 2 /\ query.out.lines[Window + 1] = 2 + Window

\* the file of the one match has been deleted
C23_WitnessFileGone ==
    /\ query.tool = "get_symbol_content" /\ Cardinality(Named) = 1
    /\ TheNamed.file \notin tree
    /\ query.out.resp = "File not found"

\* the file of the one match cannot be read
C23_WitnessUnreadable ==
    /\ query.tool = "get_symbol_content" /\ Cardinality(Named) = 1
    /\ TheNamed.file \in tree /\ ~query.live.readable
    /\ query.out.resp = "Could not read file"

\* ------------------------------------------------------------------------
\* list_files
\* ------------------------------------------------------------------------
\* list_files: "limit: int = 100"
DefaultListLimit == 100

\* list_files: pattern is None, or empty
NoPattern == <<>>

\* rows of the symbols table by their file path: a file has one or two symbols
PathRows == [file_path : NameChoices, name : {<<"a">>, <<"_">>}]
PathStores == RowSetsOf(PathRows, MaxRows)
ListPatterns == PatternChoices \cup {NoPattern}
ListLimits == {1, 2, DefaultListLimit}

\* "SELECT DISTINCT file_path FROM symbols [WHERE file_path LIKE ?]"
ListedPaths(pattern) ==
    {row.file_path : row \in
        {r \in symbols : pattern # NoPattern => Like(r.file_path, sql_pattern(pattern))}}

\* "ORDER BY file_path": the paths in rising order
PathOrder(paths) ==
    CHOOSE sq \in [1..Cardinality(paths) -> paths] :
        /\ \A i, j \in DOMAIN sq : i # j => sq[i] # sq[j]
        /\ \A i, j \in DOMAIN sq : i < j => NameLess(sq[i], sq[j])

\* list_files(pattern, limit): the file paths it lists
list_files(pattern, limit) == Take(PathOrder(ListedPaths(pattern)), limit)

\* a call of list_files(pattern, limit)
ListFiles(pattern, limit) ==
    /\ booted /\ db_exists
    /\ query' = [tool |-> "list_files", pattern |-> pattern, limit |-> limit,
                 out |-> list_files(pattern, limit)]
    /\ quiet
    /\ UNCHANGED <<svc_vars, children, store_vars, fs_vars, symbols, progress, rd>>

\* a service that is up on a completed store of the enumerated file paths
ListInit ==
    /\ booted = TRUE
    /\ handle = NoProc
    /\ last_index_time = Never
    /\ index_error = "none"
    /\ do_index_ret = "none"
    /\ diag = "none"
    /\ wd = "idle"
    /\ watchdog_due = FALSE
    /\ staleness_due = FALSE
    /\ children = [c \in Children |-> FreeChild]
    /\ db_exists = TRUE
    /\ status = "completed"
    /\ index_start_time = [kind |-> "valid", age |-> AgeCap]
    /\ error_message = "none"
    /\ cache = [exists |-> TRUE, ok |-> TRUE, version |-> CACHE_VERSION, files |-> Files]
    /\ tree = Files
    /\ modified = {}
    /\ symbols \in PathStores
    /\ progress = Progress(Cardinality(Files), Cardinality(Files))
    /\ query = NoQuery
    /\ rd = [r \in Readers |-> NoRead]

\* one call in a behaviour, as in QueryNext
ListNext ==
    /\ query = NoQuery
    /\ \E pattern \in ListPatterns, limit \in ListLimits : ListFiles(pattern, limit)

ListSpec == ListInit /\ [][ListNext]_vars

\* C24: list_files returns file paths of the symbols table, each once, at
\* most limit of them, and with a pattern given every one of them matches
\* the pattern as a glob: * and ? are wildcards, every other character
\* stands for itself
C24_ListedPathsMatchGlob ==
    query.tool = "list_files" =>
        /\ Len(query.out) <= query.limit
        /\ \A i, j \in DOMAIN query.out : i # j => query.out[i] # query.out[j]
        /\ \A i \in DOMAIN query.out :
              /\ \E row \in symbols : row.file_path = query.out[i]
              /\ query.pattern # NoPattern => fnmatch(query.out[i], query.pattern)

\* the pattern a_ has listed the file aa
C24_WitnessUnderscore ==
    /\ query.tool = "list_files" /\ query.pattern = <<"a", "_">>
    /\ \E i \in DOMAIN query.out : query.out[i] = <<"a", "a">>

\* ------------------------------------------------------------------------
\* call_tool: the dispatch and its handlers
\* ------------------------------------------------------------------------
\* call_tool: the names its if/elif chain knows
KnownTools ==
    {"search_symbols", "get_file_symbols", "get_symbol_content", "list_files"}
        \cup UnguardedTools
\* the tools that open the store with get_db
StoreTools == {"search_symbols", "get_file_symbols", "get_symbol_content", "list_files"}
\* the names called: two tools of the store, one that reads no store, and a
\* name call_tool does not know
ToolChoices == {"search_symbols", "list_files", "md_outline", "nonesuch"}

\* a dispatch with no handler for the exceptions of a tool
dispatch_unhandled(r, name, fault, ok) ==
    IF name \notin KnownTools
    THEN rd' = [rd EXCEPT ![r] = Reply("Unknown tool", "none")] /\ no_index
    ELSE IF name \in StoreTools /\ ~db_exists
    THEN RunTool(r, ok, "none")
    ELSE IF fault
    THEN rd' = [rd EXCEPT ![r] = Reply("unhandled fault", "none")] /\ no_index
    ELSE IF name \in StoreTools
    THEN RunTool(r, ok, "none")
    ELSE rd' = [rd EXCEPT ![r] = Reply("result", "none")] /\ no_index

\* call_tool past the wait: the if/elif chain and the two except clauses.
\* fault: the tool raises an exception other than FileNotFoundError
dispatch(r, name, fault, ok) ==
    IF name \notin KnownTools
    THEN rd' = [rd EXCEPT ![r] = Reply("Unknown tool", "none")] /\ no_index
    ELSE IF name \in StoreTools /\ ~db_exists
    THEN RunTool(r, ok, "none")
    ELSE IF fault
    THEN rd' = [rd EXCEPT ![r] = Reply("Tool error", "none")] /\ no_index
    ELSE IF name \in StoreTools
    THEN RunTool(r, ok, "none")
    ELSE rd' = [rd EXCEPT ![r] = Reply("result", "none")] /\ no_index

\* call_tool(name, arguments)
CallTool(r, name, fault, ok) ==
    /\ booted /\ wd = "idle"
    /\ rd[r].pc # "waiting"
    /\ IF MustWait(name)
       THEN /\ rd' = [rd EXCEPT ![r] = [NoRead EXCEPT !.pc = "waiting"]]
            /\ no_index
       ELSE dispatch(r, name, fault, ok)
    /\ diag' = "none"
    /\ UNCHANGED <<booted, wd, watchdog_due, staleness_due, store_vars, fs_vars, idx_vars>>

\* the supervisor and its child, and tool calls of every kind
CallNext ==
    \/ \E ok \in SpawnOutcomes : Startup(ok)
    \/ WatchdogSweep
    \/ WatchdogKill
    \/ \E ok \in SpawnOutcomes : StalenessSweep(ok)
    \/ \E c \in Children : ChildBegin(c)
    \/ \E c \in Children : ChildCommit(c)
    \/ \E c \in Children : ChildExit(c)
    \/ \E c \in Children, rc \in FailureCodes : ChildCrash(c, rc)
    \/ Tick
    \/ \E r \in Readers, name \in ToolChoices, fault \in BOOLEAN, ok \in SpawnOutcomes :
          CallTool(r, name, fault, ok)
    \/ \E r \in Readers, ok \in SpawnOutcomes : ReadPoll(r, ok)

CallSpec == Init /\ [][CallNext]_vars

\* the answers of call_tool, each a TextContent with a result or an error
Structured ==
    {"result", "indexing_in_progress", "database not found", "Unknown tool", "Tool error"}

C25_WitnessAbsentStoreLive ==
    \E r \in Readers :
        /\ rd[r].resp = "database not found" /\ ~db_exists
        /\ do_index_ret = "none" /\ is_indexing

\* a tool raised and the caller was answered with the Tool error
C25_WitnessToolError ==
    \E r \in Readers : rd[r].resp = "Tool error" /\ db_exists

\* an unknown name was answered with the Unknown tool error
C25_WitnessUnknownTool ==
    \E r \in Readers : rd[r].resp = "Unknown tool"

\* ------------------------------------------------------------------------
\* The symbol cache of the extraction child
\* ------------------------------------------------------------------------
\* modification times and content hashes, as small numbers
MtimeChoices == 1..3
HashChoices == 1..4

\* the cache has no entry for the path
NoEntry == [present |-> FALSE, mtime |-> 0, content_hash |-> 0]
EntryChoices ==
    {NoEntry} \cup [present : {TRUE}, mtime : MtimeChoices, content_hash : HashChoices]
\* the file as it is on disk when the run looks it up
CurrentChoices == [mtime : MtimeChoices, content_hash : HashChoices]

\* a lookup that trusts the modification time alone
cache_lookup_mtime_only(entry, current) ==
    IF entry.present /\ entry.mtime = current.mtime THEN "hit" ELSE "miss"

\* the cache lookup: a hit only if the entry's mtime and its content hash are
\* both those of the current file
cache_lookup(entry, current) ==
    IF entry.present /\ entry.mtime = current.mtime
                     /\ entry.content_hash = current.content_hash
    THEN "hit" ELSE "miss"

\* the child looks a file up in the cache it loaded
ChildLookup(c, entry, current) ==
    /\ Running(c) /\ children[c].phase = "indexing"
    /\ query' = [tool |-> "cache_lookup", entry |-> entry, current |-> current,
                 out |-> cache_lookup(entry, current)]
    /\ quiet
    /\ UNCHANGED <<svc_vars, children, store_vars, fs_vars, symbols, progress, rd>>

\* a run in flight over a tree of one file, an earlier run having completed
CacheInit ==
    /\ booted = TRUE
    /\ handle = 1
    /\ last_index_time = [set |-> TRUE, age |-> 0]
    /\ index_error = "none"
    /\ do_index_ret = "none"
    /\ diag = "none"
    /\ wd = "idle"
    /\ watchdog_due = FALSE
    /\ staleness_due = FALSE
    /\ children = [c \in Children |->
            IF c = 1 THEN [st |-> "running", phase |-> "indexing", rc |-> 0, mine |-> TRUE]
            ELSE FreeChild]
    /\ db_exists = TRUE
    /\ status = "indexing"
    /\ index_start_time = [kind |-> "valid", age |-> 0]
    /\ error_message = "none"
    /\ cache = [exists |-> TRUE, ok |-> TRUE, version |-> CACHE_VERSION, files |-> Files]
    /\ tree = Files
    /\ modified = {}
    /\ symbols = Rows(Files)
    /\ progress = Progress(0, Cardinality(Files))
    /\ query = NoQuery
    /\ rd = [r \in Readers |-> NoRead]

\* one lookup in a behaviour: a lookup reads the entry and the file only
CacheNext ==
    /\ query = NoQuery
    /\ \E c \in Children, entry \in EntryChoices, current \in CurrentChoices :
          ChildLookup(c, entry, current)

CacheSpec == CacheInit /\ [][CacheNext]_vars

\* C26: a file whose content hash differs from the recorded one is a miss
\* also when its mtime is the recorded one; an entry is reused only when the
\* mtime and the content hash of the current file both equal the recorded ones
C26_HashDominatesMtime ==
    query.tool = "cache_lookup" =>
        /\ (query.entry.present /\ query.entry.mtime = query.current.mtime
              /\ query.entry.content_hash # query.current.content_hash)
           => query.out = "miss"
        /\ query.out = "hit" =>
              /\ query.entry.present
              /\ query.entry.mtime = query.current.mtime
              /\ query.entry.content_hash = query.current.content_hash

\* a file with the recorded mtime and another content hash was looked up and missed
C26_WitnessSameMtimeMiss ==
    /\ query.tool = "cache_lookup" /\ query.entry.present
    /\ query.entry.mtime = query.current.mtime
    /\ query.entry.content_hash # query.current.content_hash
    /\ query.out = "miss"

\* an unchanged file was looked up and its entry reused
C26_WitnessHit ==
    /\ query.tool = "cache_lookup" /\ query.out = "hit"

\* ------------------------------------------------------------------------
\* The watchdog's hang check: frame, deadline, handle
\* ------------------------------------------------------------------------
\* C27: a hang check that finds no hang (the store absent, a status other
\* than indexing, or a start time at most the deadline in the past) leaves
\* the store's metadata as it is and the handle and the processes as the reap
\* step before it left them, and no kill follows
C27_NoHangNoChange ==
    [][(~StaleIndexing /\ WatchdogSweep) =>
          /\ UNCHANGED <<db_exists, status, error_message, index_start_time>>
          /\ handle' = Reaped.h
          /\ children' = Reaped.ch
          /\ wd' = "idle"]_vars

\* a sweep has passed over a run that is exactly the deadline old and left
\* it and its child alone
C27_WitnessAtDeadline ==
    /\ booted /\ ~watchdog_due /\ wd = "idle"
    /\ db_exists /\ status = "indexing"
    /\ index_start_time.kind = "valid" /\ index_start_time.age = Deadline
    /\ is_indexing

\* a sweep has passed with no store at all and a child that has not begun
C27_WitnessNoStore ==
    /\ booted /\ ~watchdog_due /\ wd = "idle"
    /\ ~db_exists /\ is_indexing /\ last_index_time.age > 0

\* C28: the watchdog kills no child that do_index spawned less than the
\* deadline ago, whatever status and start time the store still carries from
\* an earlier run
C28_KillsOnlyOldChild ==
    [][(WatchdogKill /\ is_indexing) => last_index_time.age >= Deadline]_vars

\* the watchdog has marked the store failed on the start time of an earlier
\* run and is about to kill a child spawned just now, before that child has
\* recorded its own start
C28_WitnessYoungChildMarked ==
    /\ wd = "marked" /\ is_indexing
    /\ children[handle].phase = "spawned"
    /\ last_index_time.set /\ last_index_time.age = 0
    /\ index_start_time.age > Deadline

\* C29: when a watchdog sweep that detected a hang has finished (the reap
\* step, the mark, the kill), the handle is empty and the child it referred
\* to is not running
C29_HangLeavesNoHandle ==
    [][WatchdogKill =>
          /\ handle' = NoProc
          /\ handle # NoProc => children'[handle].st # "running"]_vars

\* the hang check has finished with the kill of a live child: no handle, no
\* running child of this service
C29_WitnessKilled ==
    /\ wd = "idle" /\ ~watchdog_due /\ booted
    /\ status = "failed" /\ error_message = WatchdogMsg
    /\ handle = NoProc /\ LiveChildren = {}
    /\ last_index_time.set

\* the hang check has finished and the handle still refers to a child, one
\* that ended by itself between the reap step and the kill
C29_WitnessHandleKept ==
    /\ wd = "idle" /\ ~watchdog_due /\ booted
    /\ status = "failed" /\ error_message = WatchdogMsg
    /\ handle # NoProc /\ ~Running(handle)

\* C30: the hang check is idempotent.  A check that has finished leaves a
\* store in which it finds no hang, so that a second check at once changes
\* nothing; and a pass over a store whose status is failed rewrites neither
\* status nor error_message, starts no kill and leaves the handle to the
\* reap step
C30_HangCheckIdempotent ==
    /\ [][((WatchdogSweep \/ WatchdogKill) /\ wd' = "idle") => ~StaleIndexing']_vars
    /\ [][(db_exists /\ status = "failed" /\ WatchdogSweep) =>
             /\ UNCHANGED <<db_exists, status, error_message, index_start_time>>
             /\ handle' = Reaped.h
             /\ wd' = "idle"]_vars

\* a second sweep has just passed over the store the watchdog marked failed:
\* it reaped the child that ended during the first and marked nothing
C30_WitnessSecondPass ==
    /\ wd = "idle" /\ diag \in FailureDiags
    /\ status = "failed" /\ error_message = WatchdogMsg
    /\ index_start_time.age > Deadline
    /\ handle = NoProc

\* a sweep has just passed over a run that its child marked failed
C30_WitnessChildFailed ==
    /\ wd = "idle" /\ diag = "exited with error code"
    /\ status = "failed" /\ error_message = "indexing error"
    /\ index_start_time.age > Deadline
    /\ handle = NoProc

\* ------------------------------------------------------------------------
\* The periodic staleness sweep
\* ------------------------------------------------------------------------
\* what do_index returns when it got past its live-child check
SpawnTried == {"indexing started in subprocess", "failed to start indexing"}

C31_WitnessSweepHeldBack ==
    /\ ~staleness_due /\ watchdog_due
    /\ do_index_ret = "none"
    /\ is_indexing /\ is_stale[1]

\* ------------------------------------------------------------------------
\* The wait_for_index tool
\* ------------------------------------------------------------------------
\* the timeout_seconds a caller passes: none at all, and a few seconds
TimeoutChoices == {0, 1, 3}

\* what wait_for_indexing returns: (success, message), and the error the
\* message of a failed run carries
Waited(q, success, message, error) ==
    [q EXCEPT !.pc = "done", !.success = success, !.message = message, !.error = error]

\* a wait that takes a failed run for one that has ended well
wait_turn_failed_ok(q) ==
    IF q.waited < q.timeout_seconds
    THEN IF index_status \in {"completed", "failed"}
         THEN Waited(q, TRUE, "indexing completed", "none")
         ELSE [q EXCEPT !.waited = @ + PollInterval]
    ELSE Waited(q, FALSE, "timeout waiting for indexing", "none")

\* wait_for_indexing(timeout_seconds): one turn of its loop, the test of the
\* clock, the status repo_map_status reports and the sleep of one second
wait_turn(q) ==
    IF q.waited < q.timeout_seconds
    THEN IF index_status = "completed"
         THEN Waited(q, TRUE, "indexing completed", "none")
         ELSE IF index_status = "failed"
              THEN Waited(q, FALSE, "indexing failed", error_message)
              ELSE [q EXCEPT !.waited = @ + PollInterval]
    ELSE Waited(q, FALSE, "timeout waiting for indexing", "none")

\* a call of wait_for_index is in flight
Waiting == query.tool = "wait_for_index" /\ query.pc = "waiting"

\* call_tool("wait_for_index", timeout_seconds): the tool is not made to wait
\* by the guard of call_tool, its own loop starts at once
WaitBegin(timeout_seconds) ==
    /\ booted /\ wd = "idle"
    /\ query = NoQuery
    /\ ~MustWait("wait_for_index")
    /\ query' = [tool |-> "wait_for_index", pc |-> "waiting",
                 timeout_seconds |-> timeout_seconds, waited |-> 0,
                 success |-> FALSE, message |-> "none", error |-> "none"]
    /\ quiet
    /\ UNCHANGED <<svc_vars, children, store_vars, fs_vars, symbols, progress, rd>>

\* the event loop resumes the waiting call for one turn of its loop
WaitPoll ==
    /\ booted /\ wd = "idle"
    /\ Waiting
    /\ query' = wait_turn(query)
    /\ quiet
    /\ UNCHANGED <<svc_vars, children, store_vars, fs_vars, symbols, progress, rd>>

\* one call of wait_for_index beside the sweeps and the extraction child; the
\* seconds of the wait are counted by its polls, the clock of the timestamps
\* stands still while it is in flight
WaitNext ==
    \/ \E ok \in SpawnOutcomes : Startup(ok)
    \/ WatchdogSweep
    \/ WatchdogKill
    \/ \E ok \in SpawnOutcomes : StalenessSweep(ok)
    \/ \E c \in Children : ChildBegin(c)
    \/ \E c \in Children : ChildCommit(c)
    \/ \E c \in Children : ChildFail(c)
    \/ \E c \in Children : ChildExit(c)
    \/ \E c \in Children, rc \in FailureCodes : ChildCrash(c, rc)
    \/ (~Waiting /\ Tick)
    \/ \E t \in TimeoutChoices : WaitBegin(t)
    \/ WaitPoll

\* the event loop resumes a sleeping call however often a watchdog pass gets
\* in between, and a watchdog pass runs to its end
WaitSpec ==
    /\ Init /\ [][WaitNext]_vars
    /\ SF_vars(WaitPoll)
    /\ WF_vars(WatchdogKill)

\* C32: wait_for_index answers success only on a poll within the timeout
\* that finds status = completed; it answers "indexing failed" with the
\* stored error on the first poll within the timeout that finds status =
\* failed; every other poll within the timeout sleeps a second; past the
\* timeout it answers with the timeout failure; it never sleeps longer than
\* the timeout and every call returns
C32_WaitForIndexOutcome ==
    /\ [][(Waiting /\ query' # query)
            => IF query.waited < query.timeout_seconds /\ index_status = "completed"
               THEN /\ query'.pc = "done" /\ query'.success
                    /\ query'.message = "indexing completed"
               ELSE IF query.waited < query.timeout_seconds /\ index_status = "failed"
                    THEN /\ query'.pc = "done" /\ ~query'.success
                         /\ query'.message = "indexing failed"
                         /\ query'.error = error_message
                    ELSE IF query.waited < query.timeout_seconds
                         THEN query'.pc = "waiting" /\ query'.waited = query.waited + 1
                         ELSE /\ query'.pc = "done" /\ ~query'.success
                              /\ query'.message = "timeout waiting for indexing"]_vars
    /\ [](query.tool = "wait_for_index" => query.waited <= query.timeout_seconds)
    /\ Waiting ~> (query.tool = "wait_for_index" /\ query.pc = "done")

\* C32 witness: a call that slept and then saw the run complete
C32_WitnessCompletedLater ==
    /\ query.tool = "wait_for_index" /\ query.pc = "done"
    /\ query.success /\ query.waited > 0

\* C32, the other cases: a call told of the run the watchdog marked failed, a
\* call that waited its timeout out on a run still indexing, and one that
\* waited it out with no store at all
C32_WitnessFailed ==
    /\ query.tool = "wait_for_index" /\ query.pc = "done"
    /\ query.message = "indexing failed" /\ query.error = WatchdogMsg
    /\ query.waited > 0

C32_WitnessTimeoutIndexing ==
    /\ query.tool = "wait_for_index" /\ query.pc = "done"
    /\ query.message = "timeout waiting for indexing"
    /\ query.waited = 3 /\ db_exists /\ status = "indexing"

C32_WitnessTimeoutNoStore ==
    /\ query.tool = "wait_for_index" /\ query.pc = "done"
    /\ query.message = "timeout waiting for indexing"
    /\ query.waited = 1 /\ ~db_exists

\* ------------------------------------------------------------------------
\* What reindex_repo_map tells its caller
\* ------------------------------------------------------------------------
\* C33: a reindex_repo_map that answers "indexing started in background" has
\* spawned an extraction child: do_index returned success and the handle
\* refers to the running child
C33_StartedMeansSpawned ==
    [][\A r \in Readers, force \in BOOLEAN :
         ((\E ok \in BOOLEAN : ReindexCall(r, force, ok))
             /\ rd'[r].resp = "indexing started in background")
           => /\ do_index_ret' = "indexing started in subprocess"
              /\ handle' # NoProc /\ children'[handle'].st = "running"]_vars

\* C33 witness: the caller was told that indexing started, do_index had
\* failed to spawn and no child exists
C33_WitnessToldStartedNoChild ==
    \E r \in Readers :
        /\ rd[r].pc = "done" /\ rd[r].resp = "indexing started in background"
        /\ do_index_ret = "failed to start indexing"
        /\ index_error = "spawn failed"
        /\ \A c \in Children : children[c].st # "running"

\* ------------------------------------------------------------------------
\* repo_map_status and the last error
\* ------------------------------------------------------------------------
\* a key the dict returned by repo_map_status does not carry
Absent == "absent"

\* a status whose is_indexing says that the handle is set
repo_map_status_handle_set ==
    [database_exists |-> db_exists,
     is_indexing |-> handle # NoProc,
     last_error |-> IF index_error # "none" THEN index_error ELSE Absent,
     last_index_time |-> IF last_index_time.set THEN last_index_time.age ELSE -1,
     index_status |-> index_status,
     error |-> IF db_exists /\ status = "failed" THEN error_message ELSE Absent,
     is_stale |-> is_stale[1],
     staleness_reason |-> is_stale[2]]

\* repo_map_status(): the dict it returns; a key it leaves out is Absent,
\* last_index_time is given by its age (-1: left out)
repo_map_status ==
    [database_exists |-> db_exists,
     is_indexing |-> is_indexing,
     last_error |-> IF index_error # "none" THEN index_error ELSE Absent,
     last_index_time |-> IF last_index_time.set THEN last_index_time.age ELSE -1,
     index_status |-> index_status,
     error |-> IF db_exists /\ status = "failed" THEN error_message ELSE Absent,
     is_stale |-> is_stale[1],
     staleness_reason |-> is_stale[2]]

\* a step of a caller of do_index in which Popen raises
SpawnFails ==
    /\ ~is_indexing
    /\ do_index_ret' # "none"
    /\ \/ DirectDoIndex(FALSE)
       \/ StalenessSweep(FALSE)
       \/ \E force \in BOOLEAN : Reindex(force, FALSE)

\* C34: a do_index whose spawn fails returns "failed to start indexing",
\* leaves the handle, the processes, the last-index time and the store as
\* they were, and from then on repo_map_status reports last_error, over every
\* step but a do_index that gets past its live-child check; one that spawns
\* its child ends with no last_error reported
C34_SpawnFailureRecorded ==
    /\ [][SpawnFails
            => /\ do_index_ret' = "failed to start indexing"
               /\ UNCHANGED <<handle, children, last_index_time, store_vars, symbols>>
               /\ repo_map_status'.last_error = "spawn failed"]_vars
    /\ [][(repo_map_status.last_error # Absent /\ do_index_ret' \notin SpawnTried)
            => repo_map_status'.last_error = repo_map_status.last_error]_vars
    /\ [][do_index_ret' = "indexing started in subprocess"
            => repo_map_status'.last_error = Absent]_vars

\* C34 witness: an index was completed, a later spawn failed, and the failure
\* is still reported after the clock has advanced and other steps were taken
C34_WitnessStillReported ==
    /\ repo_map_status.last_error = "spawn failed"
    /\ do_index_ret = "none"
    /\ db_exists /\ status = "completed"
    /\ last_index_time.set /\ last_index_time.age > 0
    /\ handle = NoProc

\* C34, the other case: a failure was recorded with nothing started yet
C34_WitnessFailedFirst ==
    /\ repo_map_status.last_error = "spawn failed"
    /\ do_index_ret = "failed to start indexing"
    /\ handle = NoProc /\ ~last_index_time.set /\ ~db_exists

\* ------------------------------------------------------------------------
\* The lock of the supervisor handle
\* ------------------------------------------------------------------------
\* callers that may run the supervisor's functions at the same time: a sweep
\* and a request handler
Threads == {"sweep", "request"}

NoHolder == "none"

\* the functions that take _indexing_lock, by the place where a call starts
LockedPaths == {"reap:acquire", "kill:acquire", "check:acquire"}

\* the places where a caller stands before "with _indexing_lock", inside it
\* before its body, and inside it after its body
AcquirePoints == {"reap:acquire", "kill:acquire", "check:acquire", "set:acquire", "err:acquire"}
BodyPoints == {"reap:locked", "kill:locked", "check:locked", "set:locked", "err:locked"}
ReleasePoints ==
    {"reap:release", "kill:release", "check:release", "refuse:release", "set:release",
     "err:release"}

\* where a caller goes on leaving a with block: do_index goes on to Popen
\* after its check, every other block is the end of its function
AfterRelease(pc) == IF pc = "check:release" THEN "popen" ELSE "idle"

\* a do_index that assigns the handle without taking the lock again
AfterPopen_unlocked(ok) == IF ok THEN "set:locked" ELSE "err:acquire"

\* do_index after Popen: "with _indexing_lock" around the assignment of the
\* handle, and around that of the error in the except branch
AfterPopen(ok) == IF ok THEN "set:acquire" ELSE "err:acquire"

\* the lock is free, every caller is outside the supervisor's functions
NoLock ==
    [tool |-> "lock", holder |-> NoHolder,
     pc |-> [t \in Threads |-> "idle"], proc |-> [t \in Threads |-> NoProc]]

\* a caller enters check_subprocess_exit_status, the kill of
\* check_indexing_watchdog, or do_index
LockCall(t, path) ==
    /\ query.pc[t] = "idle"
    /\ query' = [query EXCEPT !.pc[t] = path]
    /\ UNCHANGED <<svc_vars, out_vars, children, store_vars, fs_vars, symbols, progress, rd>>

\* "with _indexing_lock:" is entered: the caller blocks until the lock is free
LockAcquire(t) ==
    /\ query.pc[t] \in AcquirePoints
    /\ query.holder = NoHolder
    /\ query' = [query EXCEPT !.holder = t,
                              !.pc[t] = CHOOSE b \in BodyPoints :
                                  \E f \in {"reap", "kill", "check", "set", "err"} :
                                      /\ query.pc[t] = f \o ":acquire"
                                      /\ b = f \o ":locked"]
    /\ UNCHANGED <<svc_vars, out_vars, children, store_vars, fs_vars, symbols, progress, rd>>

\* the body of a with block: the reap step, the kill, the live-child check of
\* do_index, the assignment of the handle, the recording of the error
LockBody(t) ==
    /\ query.pc[t] \in BodyPoints
    /\ IF query.pc[t] = "reap:locked"
       THEN /\ handle' = Reaped.h /\ children' = Reaped.ch
            /\ query' = [query EXCEPT !.pc[t] = "reap:release"]
            /\ UNCHANGED index_error
       ELSE IF query.pc[t] = "kill:locked"
       THEN /\ IF is_indexing
               THEN /\ children' = [children EXCEPT ![handle] = FreeChild]
                    /\ handle' = NoProc
               ELSE UNCHANGED <<children, handle>>
            /\ query' = [query EXCEPT !.pc[t] = "kill:release"]
            /\ UNCHANGED index_error
       ELSE IF query.pc[t] = "check:locked"
       THEN /\ IF is_indexing
               THEN /\ query' = [query EXCEPT !.pc[t] = "refuse:release"]
                    /\ UNCHANGED index_error
               ELSE /\ query' = [query EXCEPT !.pc[t] = "check:release"]
                    /\ index_error' = "none"
            /\ UNCHANGED <<children, handle>>
       ELSE IF query.pc[t] = "set:locked"
       THEN /\ handle' = query.proc[t]
            /\ query' = [query EXCEPT !.pc[t] = "set:release", !.proc[t] = NoProc]
            /\ UNCHANGED <<children, index_error>>
       ELSE /\ index_error' = "spawn failed"
            /\ query' = [query EXCEPT !.pc[t] = "err:release"]
            /\ UNCHANGED <<children, handle>>
    /\ UNCHANGED <<booted, last_index_time, wd, watchdog_due, staleness_due, out_vars,
                   store_vars, fs_vars, symbols, progress, rd>>

\* the with block is left, by its end or by a return inside it
LockRelease(t) ==
    /\ query.pc[t] \in ReleasePoints
    /\ query.holder = t
    /\ query' = [query EXCEPT !.holder = NoHolder, !.pc[t] = AfterRelease(query.pc[t])]
    /\ UNCHANGED <<svc_vars, out_vars, children, store_vars, fs_vars, symbols, progress, rd>>

\* do_index between its two with blocks: subprocess.Popen, with no lock held
LockPopen(t, ok) ==
    /\ query.pc[t] = "popen"
    /\ ok => FreeSlots(children) # {}
    /\ IF ok
       THEN LET c == LowestFree(children)
            IN  /\ children' = [children EXCEPT ![c] =
                       [st |-> "running", phase |-> "spawned", rc |-> 0, mine |-> TRUE]]
                /\ query' = [query EXCEPT !.pc[t] = AfterPopen(ok), !.proc[t] = c]
       ELSE /\ query' = [query EXCEPT !.pc[t] = AfterPopen(ok)]
            /\ UNCHANGED children
    /\ UNCHANGED <<svc_vars, out_vars, store_vars, fs_vars, symbols, progress, rd>>

\* a running service, the lock free
LockInit ==
    /\ booted = TRUE
    /\ handle = NoProc
    /\ last_index_time = Never
    /\ index_error = "none"
    /\ do_index_ret = "none"
    /\ diag = "none"
    /\ wd = "idle"
    /\ watchdog_due = FALSE
    /\ staleness_due = FALSE
    /\ children = [c \in Children |-> FreeChild]
    /\ db_exists = FALSE
    /\ status = "unknown"
    /\ index_start_time = NoTime
    /\ error_message = "none"
    /\ cache = NoCache
    /\ tree = Files
    /\ modified = {}
    /\ symbols = {}
    /\ progress = NoProgress
    /\ query = NoLock
    /\ rd = [r \in Readers |-> NoRead]

\* two callers in the supervisor's functions, statement by statement, and
\* children that end when they will
LockNext ==
    \/ \E t \in Threads, path \in LockedPaths : LockCall(t, path)
    \/ \E t \in Threads : LockAcquire(t)
    \/ \E t \in Threads : LockBody(t)
    \/ \E t \in Threads : LockRelease(t)
    \/ \E t \in Threads, ok \in BOOLEAN : LockPopen(t, ok)
    \/ \E c \in Children, rc \in FailureCodes \cup {0} : ChildCrash(c, rc)

LockSpec == LockInit /\ [][LockNext]_vars

\* a caller waits for the lock
Blocked(t) == query.pc[t] \in AcquirePoints /\ query.holder # NoHolder

\* C35: the handle changes only in a step taken with the lock held, by its
\* holder inside a with block; no caller that holds the lock stands before a
\* with block; a caller that has left the supervisor's functions does not
\* hold it; and whenever a caller waits for the lock, its holder is another
\* caller that is inside a with block and can go on to release it
C35_LockDiscipline ==
    /\ [][handle' # handle
            => /\ query.holder # NoHolder /\ query'.holder = query.holder
               /\ query.pc[query.holder] \in BodyPoints
               /\ query'.pc[query.holder] \in ReleasePoints]_vars
    /\ [](\A t \in Threads :
            /\ query.holder = t
                 => query.pc[t] \in BodyPoints \cup ReleasePoints
            /\ Blocked(t)
                 => /\ query.holder \in Threads \ {t}
                    /\ query.pc[query.holder] \in BodyPoints \cup ReleasePoints)

\* C35 witness: the request handler waits before the second with block of
\* do_index, its child spawned, while the sweep holds the lock for its reap
C35_WitnessContended ==
    /\ query.pc["request"] = "set:acquire"
    /\ query.proc["request"] # NoProc
    /\ query.holder = "sweep" /\ query.pc["sweep"] = "reap:locked"
    /\ handle # NoProc /\ ~Running(handle)

\* C35, a further case: do_index has set the handle under the lock
C35_WitnessHandleSet ==
    /\ query.holder = "request" /\ query.pc["request"] = "set:release"
    /\ handle # NoProc /\ Running(handle)

\* C36: a call of repo_map_status changes neither the store (its existence,
\* metadata, symbols and last write), the cache, the progress file, the
\* handle, the last-index time nor the last error, spawns and ends no child
\* and calls do_index not at all; and the is_indexing it reports is true
\* exactly when the handle refers to a child that is still running
C36_StatusReadOnly ==
    /\ [][\A r \in Readers :
            StatusCall(r)
              => /\ UNCHANGED <<store_vars, fs_vars, idx_vars>>
                 /\ UNCHANGED <<handle, last_index_time, index_error, children, wd>>
                 /\ do_index_ret' = "none"
                 /\ repo_map_status' = repo_map_status]_vars
    /\ [](repo_map_status.is_indexing
            <=> (handle # NoProc /\ children[handle].st = "running"))

\* C36 witness: a status call was answered while the handle still refers to a
\* child that has ended: is_indexing is false, the handle is kept
C36_WitnessHandleOnExited ==
    \E r \in Readers :
        /\ rd[r].pc = "done" /\ rd[r].resp = "status"
        /\ do_index_ret = "none" /\ diag = "none"
        /\ handle # NoProc /\ children[handle].st = "exited"
        /\ ~repo_map_status.is_indexing

\* C36, the other case: a status call answered beside a running child
C36_WitnessBesideRunning ==
    \E r \in Readers :
        /\ rd[r].pc = "done" /\ rd[r].resp = "status"
        /\ do_index_ret = "none"
        /\ repo_map_status.is_indexing /\ children[handle].phase = "indexing"

\* ------------------------------------------------------------------------
\* Staleness of a tree whose files were exchanged
\* ------------------------------------------------------------------------
\* C37: is_stale says "up to date" only when the files recorded in the cache
\* are the files that can be discovered now
C37_UpToDateMeansSameFiles ==
    ~is_stale[1] => cache.files = tree

\* C37 witness: the run indexed file 1; file 1 was deleted and file 2 added,
\* no file is newer than the store, and is_stale says "up to date"
C37_WitnessExchanged ==
    /\ db_exists /\ status = "completed"
    /\ cache.files = {1} /\ tree = {2} /\ symbols = Rows({1})
    /\ is_stale = <<FALSE, "up to date">>

\* ------------------------------------------------------------------------
\* Extractions across a restart of the service
\* ------------------------------------------------------------------------
\* the run a previous service process started is still in progress: its child
\* runs, and the store says indexing with a start time within the deadline
InheritedRun ==
    /\ \E c \in Orphans : children[c].phase = "indexing"
    /\ db_exists /\ status = "indexing"
    /\ index_start_time.kind = "valid" /\ index_start_time.age <= Deadline

\* C38: while the run of a previous service process is still in progress,
\* neither the startup, the staleness sweep nor reindex_repo_map of the
\* restarted service spawns an extraction child
C38_RestartStartsNoSecondRun ==
    [][(InheritedRun
          /\ \/ \E ok \in BOOLEAN : Startup(ok)
             \/ \E ok \in BOOLEAN : StalenessSweep(ok)
             \/ \E force, ok \in BOOLEAN : Reindex(force, ok))
        => do_index_ret' # "indexing started in subprocess"]_vars

\* C38 witness: the restarted service has just spawned a child of its own
\* beside the running child of the process before it, whose run is recent
C38_WitnessTwoExtractions ==
    /\ InheritedRun
    /\ index_start_time.age = 0
    /\ do_index_ret = "indexing started in subprocess"
    /\ is_indexing /\ children[handle].mine
    /\ Cardinality({c \in Children : children[c].st = "running"}) = 2

====
